---- MODULE Spec2Model ----
(***************************************************************************)
(* Model of the crosside command-line builder (crosside_cli.py and the     *)
(* ide_utils build helpers): the dependency graph resolver, the flag       *)
(* composition engine and the incremental compile decision.                *)
(***************************************************************************)
EXTENDS Integers, Sequences, FiniteSets, TLC

(***************************************************************************)
(* Bounds of the model.                                                    *)
(***************************************************************************)
\* total number of `depends` entries in a registry
MaxEdges == 2
\* number of module names handed to closure_for_modules
MaxRoots == 2

\* number of sources in the source list of one compile
MaxSrcs == 2
\* latest modification time of a file, in days since 1 January 1970
MaxDay == 1

\* the most modules a project descriptor references
MaxProjectModules == 1

\* module names that occur in descriptors and requests
Names == {"A", "B", "C"}

\* no visit() call is pending
NoArg == "<none>"

(***************************************************************************)
(* Sequence helpers.                                                       *)
(***************************************************************************)
Range(s) == {s[i] : i \in 1..Len(s)}

SeqsUpTo(S, n) == UNION {[1..k -> S] : k \in 0..n}

NoDuplicates(s) == \A i, j \in 1..Len(s) : s[i] = s[j] => i = j

\* position of the first occurrence of x in s (0 when absent)
IndexOf(s, x) == IF x \in Range(s) THEN CHOOSE i \in 1..Len(s) : s[i] = x /\ \A j \in 1..(i - 1) : s[j] # x ELSE 0

RECURSIVE AppendMissing(_, _)
\* for item in items: if item not in ordered: ordered.append(item)
AppendMissing(list, items) == IF items = <<>> THEN list ELSE AppendMissing(IF Head(items) \in Range(list) THEN list ELSE Append(list, Head(items)), Tail(items))

(***************************************************************************)
(* Descriptors.                                                            *)
(***************************************************************************)
\* PlatformBlock with nothing declared
EmptyBlock == [include |-> <<>>, cc_args |-> <<>>, cpp_args |-> <<>>, ld_args |-> <<>>]

\* ModuleSpec that declares only its name and its dependencies
BareModule(n, deps) == [name |-> n, static |-> TRUE, depends |-> deps, main_include |-> <<>>, main_cc_args |-> <<>>, main_cpp_args |-> <<>>, main_ld_args |-> <<>>, desktop |-> EmptyBlock, android |-> EmptyBlock, web |-> EmptyBlock]

RECURSIVE SumLen(_, _)
SumLen(f, S) == IF S = {} THEN 0 ELSE LET n == CHOOSE x \in S : TRUE IN Len(f[n]) + SumLen(f, S \ {n})

\* the dependency lists of the registries with at most MaxEdges entries
DependsChoices(S) == {f \in [S -> SeqsUpTo(Names, MaxEdges)] : SumLen(f, S) <= MaxEdges}

\* registries of bare modules: name -> ModuleSpec, keyed by the module name
BareRegistries == UNION {{[n \in S |-> BareModule(n, f[n])] : f \in DependsChoices(S)} : S \in SUBSET Names}

\* the flag declarations of a module descriptor: nothing declared
BodyEmpty == [static |-> TRUE, main_include |-> <<>>, main_cc_args |-> <<>>, main_cpp_args |-> <<>>, main_ld_args |-> <<>>, block |-> EmptyBlock]

\* a static module whose common and platform lists share flags and name
\* mode flags
BodyShared == [static |-> TRUE, main_include |-> <<"ext">>, main_cc_args |-> <<<<"-DX">>>>, main_cpp_args |-> <<<<"-DX">>>>, main_ld_args |-> <<<<"-lm">>>>, block |-> [include |-> <<"src", "gl">>, cc_args |-> <<<<"-DX">>, <<"-O2">>>>, cpp_args |-> <<<<"-g3">>, <<"-fno-omit-frame-pointer">>>>, ld_args |-> <<<<"-lm">>, <<"-s">>>>]]

\* a shared module with other flags
BodyOther == [static |-> FALSE, main_include |-> <<>>, main_cc_args |-> <<<<"-DDEBUG">>>>, main_cpp_args |-> <<<<"-DNDEBUG">>, <<"-O0">>>>, main_ld_args |-> <<<<"-lpthread">>>>, block |-> [include |-> <<"gl">>, cc_args |-> <<<<"-DY">>>>, cpp_args |-> <<<<"-DY">>>>, ld_args |-> <<<<"-Wl,-s">>, <<"-lm">>>>]]

ModuleBodies == {BodyEmpty, BodyShared, BodyOther}

\* ModuleSpec with the dependencies and the flag declarations given; the
\* three platform blocks declare the same
FullModule(n, deps, body) == [name |-> n, static |-> body.static, depends |-> deps, main_include |-> body.main_include, main_cc_args |-> body.main_cc_args, main_cpp_args |-> body.main_cpp_args, main_ld_args |-> body.main_ld_args, desktop |-> body.block, android |-> body.block, web |-> body.block]

\* the modules flags are composed for; a third name is never registered
FlagNames == {"A", "B"}

\* the dependency lists of these registries, with at most MaxEdges entries
FlagDepends(S) == {f \in [S -> SeqsUpTo(FlagNames, MaxEdges)] : SumLen(f, S) <= MaxEdges}

\* registries of modules that declare flags
FlagRegistries == UNION {{[n \in S |-> FullModule(n, f[n], b[n])] : f \in FlagDepends(S), b \in [S -> ModuleBodies]} : S \in SUBSET FlagNames}

\* the flag declarations of a project descriptor: nothing declared
NoProject == [modules |-> <<>>, include |-> <<>>, main_cc |-> <<>>, main_cpp |-> <<>>, main_ld |-> <<>>, desktop_cc |-> <<>>, desktop_cpp |-> <<>>, desktop_ld |-> <<>>, android_cc |-> <<>>, android_cpp |-> <<>>, android_ld |-> <<>>, web_cc |-> <<>>, web_cpp |-> <<>>, web_ld |-> <<>>]

\* a project whose common and per-target lists share flags and name mode
\* flags; the three targets declare the same
ProjectShared == [modules |-> <<>>, include |-> <<"inc", "inc">>, main_cc |-> <<<<"-DX">>, <<"-O2">>>>, main_cpp |-> <<<<"-DDEBUG">>>>, main_ld |-> <<<<"-lm">>>>, desktop_cc |-> <<<<"-DX">>>>, desktop_cpp |-> <<<<"-fno-omit-frame-pointer">>>>, desktop_ld |-> <<<<"-lm">>, <<"-s">>>>, android_cc |-> <<<<"-DX">>>>, android_cpp |-> <<<<"-fno-omit-frame-pointer">>>>, android_ld |-> <<<<"-lm">>, <<"-s">>>>, web_cc |-> <<<<"-DX">>>>, web_cpp |-> <<<<"-fno-omit-frame-pointer">>>>, web_ld |-> <<<<"-lm">>, <<"-s">>>>]

\* a project that declares each flag once
ProjectPlain == [modules |-> <<>>, include |-> <<"inc">>, main_cc |-> <<<<"-DX">>>>, main_cpp |-> <<<<"-DX">>>>, main_ld |-> <<<<"-lpthread">>>>, desktop_cc |-> <<<<"-DY">>>>, desktop_cpp |-> <<<<"-DY">>>>, desktop_ld |-> <<<<"-lm">>>>, android_cc |-> <<<<"-DY">>>>, android_cpp |-> <<<<"-DY">>>>, android_ld |-> <<<<"-lm">>>>, web_cc |-> <<<<"-DY">>>>, web_cpp |-> <<<<"-DY">>>>, web_ld |-> <<<<"-lm">>>>]

\* the project descriptors: flag declarations and the modules referenced
Projects == {[body EXCEPT !.modules = m] : body \in {NoProject, ProjectShared, ProjectPlain}, m \in SeqsUpTo(FlagNames, MaxProjectModules)}

VARIABLES
  all_modules,   \* the module registry: name -> ModuleSpec
  module_names,  \* closure_for_modules: the requested module names
  idx,           \* closure_for_modules: position in module_names
  ordered,       \* closure_for_modules: the closure built so far
  order,         \* topological_modules: the post-order list
  visited,       \* topological_modules: the finished modules
  stack,         \* topological_modules: the modules under visit
  frames,        \* the active visit() calls: [name, i] with i the next dependency
  arg,           \* the argument of a visit() call about to run, or NoArg
  traces,        \* ctx.trace: the warnings printed by the resolver
  pc,            \* control position of the resolver
  c_target,      \* the compile in progress: "desktop", "web" or "android"
  arm,           \* android_compile: the ABI (0 armeabi-v7a, 1 arm64-v8a)
  full_build,    \* the full_build argument
  srcs,          \* the source list
  srcTime,       \* existing source files: file -> modification time
  objTime,       \* existing object files: file -> modification time
  IsDone,        \* parent.IsDone, the stop-requested flag
  c_i,           \* position of the loop in srcs
  use_cpp,       \* the use_cpp local of the compile function
  invocations,   \* the compiler processes started: [ctype, src, obj, args]
  c_result,      \* the value the compile function returned
  c_pc,          \* control position of the compile function
  project,       \* build_project_target: the ProjectSpec
  disk,          \* the library files that exist
  f_target,      \* the target flags are composed for
  f_abi,         \* the Android ABI flags are composed for
  f_mode,        \* the desktop mode
  f_subject,     \* the module flags were composed for, or "project"
  collected,     \* what collect_module_build_flags returned: <<cc, cpp, ld>>
  cc_args,       \* the C-compile flags handed to the compile step
  cpp_args,      \* the C++-compile flags handed to the compile step
  ld_args,       \* the link flags handed to the link step
  f_pc,          \* control position of the flag composition
  units,         \* the modules and the project to build for the target, in order
  u_i,           \* the unit being built
  abi_list,      \* the Android ABIs to build for
  a_i,           \* position of the ABI loop in abi_list
  ok,            \* the ok local of the ABI loop
  links,         \* the linker, archiver and strip processes started
  u_result,      \* what the build of the unit returned
  u_pc,          \* control position of the build of the unit
  subject_kind,          \* command_build: "module" or "app"
  raw_targets,   \* the target tokens of the request
  raw_abis,      \* the tokens of the --abis list
  default_target,\* the target of config.json
  present,       \* the toolchain paths that exist
  subject_file,  \* the module or project file of the request exists
  dry_run,       \* args.dry_run
  targets,       \* the normalized targets
  t_i,           \* position of the target loop
  missing,       \* the missing paths listed by toolchain_ready_for_target
  exit_code,     \* what the command returned, -1 while it runs
  cmd_pc,        \* control position of command_build
  manifest,      \* android_compile_java_native: AndroidManifest.xml
  res,           \* the files of the res folder
  files,         \* the files the packaging steps have produced
  java,          \* per java source, the state of its class file
  dx8_exists,    \* the modern translator is given and exists
  run_app,       \* the app is to be started
  tool_log,      \* the external tools of the run, each with its exit code
  j_i,           \* position of the loop over the java sources
  runs,          \* the number of the packaging run
  before,        \* the manifest and the files when the run started
  p_result,      \* what android_compile_java_native returned
  p_pc,          \* the packaging step to come
  native_libs,   \* the ABIs of the request and the ABIs whose library exists
  apk,           \* the entries of the unaligned archive
  p_trace,       \* parent.trace: the libraries inserted and missed
  web_project,   \* web link: the preload folders and the shell of the project
  w_ld_args,     \* the link flags handed to web_build
  w_args,        \* normalized_ldargs of web_build
  w_pc           \* control position of the web link

resolverVars == <<all_modules, module_names, idx, ordered, order, visited, stack, frames, arg, traces, pc>>

compileVars == <<c_target, arm, full_build, srcs, srcTime, objTime, IsDone, c_i, use_cpp, invocations, c_result, c_pc>>

flagVars == <<project, disk, f_target, f_abi, f_mode, f_subject, collected, cc_args, cpp_args, ld_args, f_pc>>

unitVars == <<units, u_i, abi_list, a_i, ok, links, u_result, u_pc>>

commandVars == <<subject_kind, raw_targets, raw_abis, default_target, present, subject_file, dry_run, targets, t_i, missing, exit_code, cmd_pc>>

pipelineVars == <<manifest, res, files, java, dx8_exists, run_app, tool_log, j_i, runs, before, p_result, p_pc, native_libs, apk, p_trace>>

webVars == <<web_project, w_ld_args, w_args, w_pc>>

vars == <<resolverVars, compileVars, flagVars, unitVars, commandVars, pipelineVars, webVars>>

\* the variables no step of the build of a unit changes, the variables of
\* the compile apart
notBuildVars == <<resolverVars, flagVars, commandVars, pipelineVars, webVars>>

\* the variables no step of the resolver changes
notResolverVars == <<compileVars, flagVars, unitVars, commandVars, pipelineVars, webVars>>

\* the variables no step of a compile changes
notCompileVars == <<resolverVars, flagVars, unitVars, commandVars, pipelineVars, webVars>>

\* the variables no step of the flag composition changes
notFlagVars == <<resolverVars, compileVars, unitVars, commandVars, pipelineVars, webVars>>

(***************************************************************************)
(* Dependency Graph Resolver: closure_for_modules / topological_modules.   *)
(***************************************************************************)
Top == frames[Len(frames)]

Pop == SubSeq(frames, 1, Len(frames) - 1)

\* module.depends of the module under visit in the top frame
TopDepends == all_modules[Top.name].depends

\* closure_for_modules: for name in module_names: topological_modules(name, ...)
\* topological_modules: order, visited, stack start empty; visit(module_name)
TopologicalModules ==
  /\ pc = "closure"
  /\ idx <= Len(module_names)
  /\ order' = <<>>
  /\ visited' = {}
  /\ stack' = {}
  /\ frames' = <<>>
  /\ arg' = module_names[idx]
  /\ pc' = "visit"
  /\ UNCHANGED <<all_modules, module_names, idx, ordered, traces>>
  /\ UNCHANGED notResolverVars

\* visit: if name in visited: return
VisitVisited ==
  /\ pc = "visit"
  /\ arg # NoArg
  /\ arg \in visited
  /\ arg' = NoArg
  /\ UNCHANGED <<all_modules, module_names, idx, ordered, order, visited, stack, frames, traces, pc>>
  /\ UNCHANGED notResolverVars

\* variant of VisitCircular: a dependency cycle raises instead of returning
VisitCircularRaise ==
  /\ pc = "visit"
  /\ arg # NoArg
  /\ arg \notin visited
  /\ arg \in stack
  /\ pc' = "error"
  /\ UNCHANGED <<all_modules, module_names, idx, ordered, order, visited, stack, frames, arg, traces>>
  /\ UNCHANGED notResolverVars

\* visit: if name in stack: trace the circular dependency; return
VisitCircular ==
  /\ pc = "visit"
  /\ arg # NoArg
  /\ arg \notin visited
  /\ arg \in stack
  /\ traces' = Append(traces, <<"circular", arg>>)
  /\ arg' = NoArg
  /\ UNCHANGED <<all_modules, module_names, idx, ordered, order, visited, stack, frames, pc>>
  /\ UNCHANGED notResolverVars

\* visit: module = all_modules.get(name); if not module: trace; return
VisitNotFound ==
  /\ pc = "visit"
  /\ arg # NoArg
  /\ arg \notin visited
  /\ arg \notin stack
  /\ arg \notin DOMAIN all_modules
  /\ traces' = Append(traces, <<"not found", arg>>)
  /\ arg' = NoArg
  /\ UNCHANGED <<all_modules, module_names, idx, ordered, order, visited, stack, frames, pc>>
  /\ UNCHANGED notResolverVars

\* visit: stack.add(name) and start the loop over module.depends
VisitEnter ==
  /\ pc = "visit"
  /\ arg # NoArg
  /\ arg \notin visited
  /\ arg \notin stack
  /\ arg \in DOMAIN all_modules
  /\ stack' = stack \cup {arg}
  /\ frames' = Append(frames, [name |-> arg, i |-> 1])
  /\ arg' = NoArg
  /\ UNCHANGED <<all_modules, module_names, idx, ordered, order, visited, traces, pc>>
  /\ UNCHANGED notResolverVars

\* visit: a dependency that is empty or names the module itself: continue
VisitSkipDep ==
  /\ pc = "visit"
  /\ arg = NoArg
  /\ frames # <<>>
  /\ Top.i <= Len(TopDepends)
  /\ (TopDepends[Top.i] = "" \/ TopDepends[Top.i] = Top.name)
  /\ frames' = [frames EXCEPT ![Len(frames)].i = @ + 1]
  /\ UNCHANGED <<all_modules, module_names, idx, ordered, order, visited, stack, arg, traces, pc>>
  /\ UNCHANGED notResolverVars

\* visit: any other dependency: visit(dep_name)
VisitCallDep ==
  /\ pc = "visit"
  /\ arg = NoArg
  /\ frames # <<>>
  /\ Top.i <= Len(TopDepends)
  /\ ~(TopDepends[Top.i] = "" \/ TopDepends[Top.i] = Top.name)
  /\ arg' = TopDepends[Top.i]
  /\ frames' = [frames EXCEPT ![Len(frames)].i = @ + 1]
  /\ UNCHANGED <<all_modules, module_names, idx, ordered, order, visited, stack, traces, pc>>
  /\ UNCHANGED notResolverVars

\* variant of VisitFinish: the finished module is not added to visited
VisitFinishNoMark ==
  /\ pc = "visit"
  /\ arg = NoArg
  /\ frames # <<>>
  /\ Top.i > Len(TopDepends)
  /\ stack' = stack \ {Top.name}
  /\ order' = Append(order, Top.name)
  /\ frames' = Pop
  /\ UNCHANGED <<all_modules, module_names, idx, ordered, visited, arg, traces, pc>>
  /\ UNCHANGED notResolverVars

\* variant of VisitFinish: the finished module is put at the front of order
VisitFinishPrepend ==
  /\ pc = "visit"
  /\ arg = NoArg
  /\ frames # <<>>
  /\ Top.i > Len(TopDepends)
  /\ stack' = stack \ {Top.name}
  /\ visited' = visited \cup {Top.name}
  /\ order' = <<Top.name>> \o order
  /\ frames' = Pop
  /\ UNCHANGED <<all_modules, module_names, idx, ordered, arg, traces, pc>>
  /\ UNCHANGED notResolverVars

\* visit: after the loop: stack.remove(name) (KeyError when absent),
\* visited.add(name), order.append(name)
VisitFinish ==
  /\ pc = "visit"
  /\ arg = NoArg
  /\ frames # <<>>
  /\ Top.i > Len(TopDepends)
  /\ IF Top.name \in stack
       THEN /\ stack' = stack \ {Top.name}
            /\ visited' = visited \cup {Top.name}
            /\ order' = Append(order, Top.name)
            /\ frames' = Pop
            /\ pc' = pc
       ELSE /\ pc' = "error"
            /\ UNCHANGED <<stack, visited, order, frames>>
  /\ UNCHANGED <<all_modules, module_names, idx, ordered, arg, traces>>
  /\ UNCHANGED notResolverVars

\* topological_modules: return order
TopologicalReturn ==
  /\ pc = "visit"
  /\ arg = NoArg
  /\ frames = <<>>
  /\ pc' = "returned"
  /\ UNCHANGED <<all_modules, module_names, idx, ordered, order, visited, stack, frames, arg, traces>>
  /\ UNCHANGED notResolverVars

\* closure_for_modules: for item in order: if item not in ordered: append
ClosureMerge ==
  /\ pc = "returned"
  /\ ordered' = AppendMissing(ordered, order)
  /\ idx' = idx + 1
  /\ pc' = "closure"
  /\ UNCHANGED <<all_modules, module_names, order, visited, stack, frames, arg, traces>>
  /\ UNCHANGED notResolverVars

\* closure_for_modules: return ordered
ClosureReturn ==
  /\ pc = "closure"
  /\ idx > Len(module_names)
  /\ pc' = "done"
  /\ UNCHANGED <<all_modules, module_names, idx, ordered, order, visited, stack, frames, arg, traces>>
  /\ UNCHANGED notResolverVars

ResolverInit ==
  /\ all_modules \in BareRegistries
  /\ module_names \in SeqsUpTo(Names, MaxRoots)
  /\ idx = 1
  /\ ordered = <<>>
  /\ order = <<>>
  /\ visited = {}
  /\ stack = {}
  /\ frames = <<>>
  /\ arg = NoArg
  /\ traces = <<>>
  /\ pc = "closure"

ResolverNext ==
  \/ TopologicalModules
  \/ VisitVisited
  \/ VisitCircular
  \/ VisitNotFound
  \/ VisitEnter
  \/ VisitSkipDep
  \/ VisitCallDep
  \/ VisitFinish
  \/ TopologicalReturn
  \/ ClosureMerge
  \/ ClosureReturn

(***************************************************************************)
(* Incremental Build Tracker and compile loops: desktop_compile,           *)
(* web_compile (native_build.py) and android_compile                       *)
(* (android_native_build.py).                                              *)
(***************************************************************************)
\* the source files a source list can name: directory below folder_root,
\* base name, extension
SourceFiles == {[dir |-> "", stem |-> "a", ext |-> ".c"], [dir |-> "", stem |-> "a", ext |-> ".cpp"], [dir |-> "sub", stem |-> "a", ext |-> ".c"]}

\* modification times: whole days since Thursday 1 January 1970
Times == 0..MaxDay

\* the time of the build: no file is newer
now == MaxDay

\* len(file_extension)
ExtLen(ext) == IF ext = ".cpp" THEN 4 ELSE 2

\* time.ctime(t)[0:3], the weekday abbreviation, by its rank in string order
\* (Fri < Mon < Sat < Sun < Thu < Tue < Wed); day 0 is a Thursday
WeekdayRank(t) == <<5, 1, 3, 4, 2, 6, 7>>[(t % 7) + 1]

\* time.ctime(t): "Www Mmm dd hh:mm:ss yyyy"; the times of the model lie in
\* January 1970 at one time of day, where the fields after the weekday order
\* as the day of the month does
ctime(t) == <<WeekdayRank(t), t + 1>>

\* a < b on the strings time.ctime returns
StrLess(a, b) == a[1] < b[1] \/ (a[1] = b[1] /\ a[2] < b[2])

\* desktop_compile: obj_name = <obj/Linux/name>/<source directory>/<base>.o
DesktopObjName(src) == [root |-> "Linux", dir |-> src.dir, stem |-> src.stem]

\* web_compile: obj_name = <obj/Web/name>/<source directory>/<base>.o
WebObjName(src) == [root |-> "Web", dir |-> src.dir, stem |-> src.stem]

\* android_compile: obj_name = <obj/Android/name/abi>/<base>.o
AndroidObjName(src, abi) == [root |-> IF abi = 1 THEN "arm64-v8a" ELSE "armeabi-v7a", dir |-> "", stem |-> src.stem]

ObjName(target, src, abi) == IF target = "desktop" THEN DesktopObjName(src) ELSE IF target = "web" THEN WebObjName(src) ELSE AndroidObjName(src, abi)

\* desktop_compile: the object exists and src_convert_time < obj_convert_time
DesktopUpToDate(src, obj) == obj \in DOMAIN objTime /\ StrLess(ctime(srcTime[src]), ctime(objTime[obj]))

\* web_compile: the object exists and src_convert_time < obj_convert_time
WebUpToDate(src, obj) == obj \in DOMAIN objTime /\ StrLess(ctime(srcTime[src]), ctime(objTime[obj]))

\* android_compile: the object exists and src_modified_time <= obj_modified_time
AndroidUpToDate(src, obj) == obj \in DOMAIN objTime /\ srcTime[src] <= objTime[obj]

\* the source the loop is at
CurSrc == srcs[c_i]

\* the compiler process started last
LastInvocation == invocations[Len(invocations)]

\* the file written by a compiler process that exits with code 0
WriteObj(obj) == [o \in DOMAIN objTime \cup {obj} |-> IF o = obj THEN now ELSE objTime[o]]

\* variant of DesktopCompileNext: the timestamps are compared in a full
\* build too
DesktopCompileNextNoFull ==
  /\ c_target = "desktop"
  /\ c_pc = "loop"
  /\ IF c_i > Len(srcs)
       THEN /\ c_result' = "True"
            /\ c_pc' = "return"
            /\ UNCHANGED <<c_i, use_cpp, invocations>>
       ELSE IF CurSrc \notin DOMAIN srcTime
       THEN /\ c_i' = c_i + 1
            /\ UNCHANGED <<use_cpp, invocations, c_result, c_pc>>
       ELSE IF IsDone
       THEN /\ c_result' = "False"
            /\ c_pc' = "return"
            /\ UNCHANGED <<c_i, use_cpp, invocations>>
       ELSE /\ use_cpp' = (use_cpp \/ ExtLen(CurSrc.ext) >= 3)
            /\ IF DesktopUpToDate(CurSrc, DesktopObjName(CurSrc))
                 THEN /\ c_i' = c_i + 1
                      /\ UNCHANGED <<invocations, c_pc>>
                 ELSE /\ invocations' = Append(invocations, [ctype |-> IF ExtLen(CurSrc.ext) >= 3 THEN "g++" ELSE "gcc", src |-> CurSrc, obj |-> DesktopObjName(CurSrc), args |-> IF use_cpp' THEN "cppargs" ELSE "cargs"])
                      /\ c_pc' = "compiling"
                      /\ UNCHANGED c_i
            /\ UNCHANGED c_result
  /\ UNCHANGED <<c_target, arm, full_build, srcs, srcTime, objTime, IsDone>>
  /\ UNCHANGED notCompileVars

\* desktop_compile: the loop up to the start of the compiler, or the return
\* after the last source
DesktopCompileNext ==
  /\ c_target = "desktop"
  /\ c_pc = "loop"
  /\ IF c_i > Len(srcs)
       THEN /\ c_result' = "True"
            /\ c_pc' = "return"
            /\ UNCHANGED <<c_i, use_cpp, invocations>>
       ELSE IF CurSrc \notin DOMAIN srcTime
       THEN /\ c_i' = c_i + 1
            /\ UNCHANGED <<use_cpp, invocations, c_result, c_pc>>
       ELSE IF IsDone
       THEN /\ c_result' = "False"
            /\ c_pc' = "return"
            /\ UNCHANGED <<c_i, use_cpp, invocations>>
       ELSE /\ use_cpp' = (use_cpp \/ ExtLen(CurSrc.ext) >= 3)
            /\ IF ~full_build /\ DesktopUpToDate(CurSrc, DesktopObjName(CurSrc))
                 THEN /\ c_i' = c_i + 1
                      /\ UNCHANGED <<invocations, c_pc>>
                 ELSE /\ invocations' = Append(invocations, [ctype |-> IF ExtLen(CurSrc.ext) >= 3 THEN "g++" ELSE "gcc", src |-> CurSrc, obj |-> DesktopObjName(CurSrc), args |-> IF use_cpp' THEN "cppargs" ELSE "cargs"])
                      /\ c_pc' = "compiling"
                      /\ UNCHANGED c_i
            /\ UNCHANGED c_result
  /\ UNCHANGED <<c_target, arm, full_build, srcs, srcTime, objTime, IsDone>>
  /\ UNCHANGED notCompileVars

\* desktop_compile: the compiler exits; a nonzero code returns False, and so
\* does IsDone after the compile
DesktopCompileExit ==
  /\ c_target = "desktop"
  /\ c_pc = "compiling"
  /\ \E code \in {0, 1} :
       IF code # 0
         THEN /\ c_result' = "False"
              /\ c_pc' = "return"
              /\ UNCHANGED <<objTime, c_i>>
         ELSE /\ objTime' = WriteObj(LastInvocation.obj)
              /\ IF IsDone
                   THEN /\ c_result' = "False"
                        /\ c_pc' = "return"
                        /\ UNCHANGED c_i
                   ELSE /\ c_i' = c_i + 1
                        /\ c_pc' = "loop"
                        /\ UNCHANGED c_result
  /\ UNCHANGED <<c_target, arm, full_build, srcs, srcTime, IsDone, use_cpp, invocations>>
  /\ UNCHANGED notCompileVars

\* web_compile: the loop up to the start of the compiler, or the return
\* after the last source; IsDone before a source returns None
WebCompileNext ==
  /\ c_target = "web"
  /\ c_pc = "loop"
  /\ IF c_i > Len(srcs)
       THEN /\ c_result' = "True"
            /\ c_pc' = "return"
            /\ UNCHANGED <<c_i, use_cpp, invocations>>
       ELSE IF CurSrc \notin DOMAIN srcTime
       THEN /\ c_i' = c_i + 1
            /\ UNCHANGED <<use_cpp, invocations, c_result, c_pc>>
       ELSE IF IsDone
       THEN /\ c_result' = "None"
            /\ c_pc' = "return"
            /\ UNCHANGED <<c_i, use_cpp, invocations>>
       ELSE /\ use_cpp' = (use_cpp \/ ExtLen(CurSrc.ext) >= 3)
            /\ IF ~full_build /\ WebUpToDate(CurSrc, WebObjName(CurSrc))
                 THEN /\ c_i' = c_i + 1
                      /\ UNCHANGED <<invocations, c_pc>>
                 ELSE /\ invocations' = Append(invocations, [ctype |-> IF ExtLen(CurSrc.ext) >= 3 THEN "emcpp" ELSE "emcc", src |-> CurSrc, obj |-> WebObjName(CurSrc), args |-> IF use_cpp' THEN "cppargs" ELSE "cargs"])
                      /\ c_pc' = "compiling"
                      /\ UNCHANGED c_i
            /\ UNCHANGED c_result
  /\ UNCHANGED <<c_target, arm, full_build, srcs, srcTime, objTime, IsDone>>
  /\ UNCHANGED notCompileVars

\* web_compile: the compiler exits; a nonzero code returns False, and so
\* does IsDone after the compile
WebCompileExit ==
  /\ c_target = "web"
  /\ c_pc = "compiling"
  /\ \E code \in {0, 1} :
       IF code # 0
         THEN /\ c_result' = "False"
              /\ c_pc' = "return"
              /\ UNCHANGED <<objTime, c_i>>
         ELSE /\ objTime' = WriteObj(LastInvocation.obj)
              /\ IF IsDone
                   THEN /\ c_result' = "False"
                        /\ c_pc' = "return"
                        /\ UNCHANGED c_i
                   ELSE /\ c_i' = c_i + 1
                        /\ c_pc' = "loop"
                        /\ UNCHANGED c_result
  /\ UNCHANGED <<c_target, arm, full_build, srcs, srcTime, IsDone, use_cpp, invocations>>
  /\ UNCHANGED notCompileVars

\* android_compile: the loop up to the start of the compiler, or the return
\* after the last source; use_cpp is set anew for every source and IsDone
\* is not read
AndroidCompileNext ==
  /\ c_target = "android"
  /\ c_pc = "loop"
  /\ IF c_i > Len(srcs)
       THEN /\ c_result' = "True"
            /\ c_pc' = "return"
            /\ UNCHANGED <<c_i, use_cpp, invocations>>
       ELSE IF CurSrc \notin DOMAIN srcTime
       THEN /\ c_i' = c_i + 1
            /\ use_cpp' = FALSE
            /\ UNCHANGED <<invocations, c_result, c_pc>>
       ELSE IF ~full_build /\ AndroidUpToDate(CurSrc, AndroidObjName(CurSrc, arm))
       THEN /\ c_i' = c_i + 1
            /\ use_cpp' = FALSE
            /\ UNCHANGED <<invocations, c_result, c_pc>>
       ELSE /\ use_cpp' = (CurSrc.ext \in {".cpp", "xpp"})
            /\ invocations' = Append(invocations, [ctype |-> IF use_cpp' THEN "clang++" ELSE "clang", src |-> CurSrc, obj |-> AndroidObjName(CurSrc, arm), args |-> IF use_cpp' THEN "cppargs" ELSE "cargs"])
            /\ c_pc' = "compiling"
            /\ UNCHANGED <<c_i, c_result>>
  /\ UNCHANGED <<c_target, arm, full_build, srcs, srcTime, objTime, IsDone>>
  /\ UNCHANGED notCompileVars

\* android_compile: the compiler exits; a nonzero code returns False
AndroidCompileExit ==
  /\ c_target = "android"
  /\ c_pc = "compiling"
  /\ \E code \in {0, 1} :
       IF code # 0
         THEN /\ c_result' = "False"
              /\ c_pc' = "return"
              /\ UNCHANGED <<objTime, c_i>>
         ELSE /\ objTime' = WriteObj(LastInvocation.obj)
              /\ c_i' = c_i + 1
              /\ c_pc' = "loop"
              /\ UNCHANGED c_result
  /\ UNCHANGED <<c_target, arm, full_build, srcs, srcTime, IsDone, use_cpp, invocations>>
  /\ UNCHANGED notCompileVars

\* the caller of the compile sets the stop-requested flag
RequestStop ==
  /\ c_pc \in {"loop", "compiling"}
  /\ ~IsDone
  /\ IsDone' = TRUE
  /\ UNCHANGED <<c_target, arm, full_build, srcs, srcTime, objTime, c_i, use_cpp, invocations, c_result, c_pc>>
  /\ UNCHANGED notCompileVars

\* source lists: up to MaxSrcs different files
SourceLists == {l \in SeqsUpTo(SourceFiles, MaxSrcs) : NoDuplicates(l)}

\* files of the set D that exist, each with a modification time of T
FileTimes(D, T) == UNION {[E -> T] : E \in SUBSET D}

CompileInit ==
  /\ c_target \in {"desktop", "web", "android"}
  /\ arm \in (IF c_target = "android" THEN {0, 1} ELSE {0})
  /\ full_build \in BOOLEAN
  /\ srcs \in SourceLists
  /\ srcTime \in FileTimes(Range(srcs), Times)
  /\ \E t \in Times : objTime \in FileTimes({ObjName(c_target, s, arm) : s \in Range(srcs)}, {t})
  /\ IsDone = FALSE
  /\ c_i = 1
  /\ use_cpp = FALSE
  /\ invocations = <<>>
  /\ c_result = "running"
  /\ c_pc = "loop"

CompileNext ==
  \/ DesktopCompileNext
  \/ DesktopCompileExit
  \/ WebCompileNext
  \/ WebCompileExit
  \/ AndroidCompileNext
  \/ AndroidCompileExit
  \/ RequestStop

(***************************************************************************)
(* Flag Composition Engine (crosside_cli.py).  A flag is a tuple of        *)
(* strings: <<"-I", directory...>>, <<"-L", directory...>>, <<"-l", name>>   *)
(* for the flags the engine builds, and a one-element tuple for a flag     *)
(* written in a descriptor.                                                *)
(***************************************************************************)
\* append_unique(items, value)
append_unique(items, value) == IF value # <<>> /\ value \notin Range(items) THEN Append(items, value) ELSE items

RECURSIVE AppendAllUnique(_, _)
\* for flag in flags: append_unique(items, flag)
AppendAllUnique(items, flags) == IF flags = <<>> THEN items ELSE AppendAllUnique(append_unique(items, Head(flags)), Tail(flags))

RECURSIVE AppendAllNonEmpty(_, _)
\* for flag in flags: if flag: items.append(flag)
AppendAllNonEmpty(items, flags) == IF flags = <<>> THEN items ELSE AppendAllNonEmpty(IF Head(flags) # <<>> THEN Append(items, Head(flags)) ELSE items, Tail(flags))

RECURSIVE visit(_, _, _)
RECURSIVE visit_deps(_, _, _, _)
\* topological_modules.visit as a function of the order, visited and stack
\* it is called with
visit(reg, name, st) ==
  IF name \in st.visited THEN st
  ELSE IF name \in st.stack THEN st
  ELSE IF name \notin DOMAIN reg THEN st
  ELSE LET after == visit_deps(reg, name, reg[name].depends, [st EXCEPT !.stack = @ \cup {name}])
       IN [order |-> Append(after.order, name), visited |-> after.visited \cup {name}, stack |-> after.stack \ {name}]

\* the loop of visit over module.depends
visit_deps(reg, name, deps, st) ==
  IF deps = <<>> THEN st
  ELSE visit_deps(reg, name, Tail(deps), IF Head(deps) = "" \/ Head(deps) = name THEN st ELSE visit(reg, Head(deps), st))

\* topological_modules(module_name, all_modules, ctx), without the traces
topological_modules(module_name, reg) == visit(reg, module_name, [order |-> <<>>, visited |-> {}, stack |-> {}]).order

RECURSIVE closure_loop(_, _, _)
closure_loop(names, reg, list) == IF names = <<>> THEN list ELSE closure_loop(Tail(names), reg, AppendMissing(list, topological_modules(Head(names), reg)))

\* closure_for_modules(module_names, all_modules, ctx), without the traces
closure_for_modules(names, reg) == closure_loop(names, reg, <<>>)

\* module_platform_block(module, target)
module_platform_block(module, target) == IF target = "desktop" THEN module.desktop ELSE IF target = "android" THEN module.android ELSE module.web

\* include_suffix_for_target(target), on a system other than Windows
include_suffix_for_target(target) == IF target = "desktop" THEN "linux" ELSE IF target = "android" THEN "android" ELSE "web"

\* the name of the ABI directory
AbiName(abi) == IF abi = 1 THEN "arm64-v8a" ELSE "armeabi-v7a"

\* library_dir_for_module(module, target, abi); module.directory is the
\* directory named after the module
library_dir_for_module(module, target, abi) == IF target = "desktop" THEN <<module.name, "Linux">> ELSE IF target = "web" THEN <<module.name, "Web">> ELSE <<module.name, "Android", AbiName(abi)>>

\* library_file_for_module(module, target, abi)
library_file_for_module(module, target, abi) == library_dir_for_module(module, target, abi) \o <<"lib", module.name, IF module.static \/ target = "web" THEN ".a" ELSE ".so">>

\* the "-I" flags of a list of directories below module.directory
IncludeFlags(module, rels) == [k \in 1..Len(rels) |-> <<"-I", module.name, rels[k]>>]

\* add_module_include_flags: the flags of include_candidates, in order
include_candidates(module, block, target) == <<<<"-I", module.name, "src">>, <<"-I", module.name, "include">>, <<"-I", module.name, "include", include_suffix_for_target(target)>>>> \o IncludeFlags(module, module.main_include) \o IncludeFlags(module, block.include)

\* add_module_include_flags(module, block, target, cc_args, cpp_args): the
\* lists cc_args and cpp_args after the call
add_module_include_flags(module, block, target, cc, cpp) == [cc |-> AppendAllUnique(cc, include_candidates(module, block, target)), cpp |-> AppendAllUnique(cpp, include_candidates(module, block, target))]

\* variant of add_module_link_flags: "-l" is added whether or not the
\* library file exists
add_module_link_flags_always(module, block, target, abi, ld) ==
  AppendAllNonEmpty(AppendAllNonEmpty(Append(append_unique(ld, <<"-L">> \o library_dir_for_module(module, target, abi)), <<"-l", module.name>>), module.main_ld_args), block.ld_args)

\* add_module_link_flags(module, block, target, abi, ld_args): the list
\* ld_args after the call
add_module_link_flags(module, block, target, abi, ld) ==
  LET withDir == append_unique(ld, <<"-L">> \o library_dir_for_module(module, target, abi))
      withLib == IF library_file_for_module(module, target, abi) \in disk THEN Append(withDir, <<"-l", module.name>>) ELSE withDir
  IN AppendAllNonEmpty(AppendAllNonEmpty(withLib, module.main_ld_args), block.ld_args)

RECURSIVE module_dep_flags(_, _, _, _, _)
\* collect_module_build_flags: the loop over module.depends
module_dep_flags(module, deps, target, abi, lists) ==
  IF deps = <<>> THEN lists
  ELSE LET name == Head(deps)
           dep == all_modules[name]
           inc == add_module_include_flags(dep, module_platform_block(dep, target), target, lists.cc, lists.cpp)
       IN module_dep_flags(module, Tail(deps), target, abi,
            IF name = "" \/ name = module.name \/ name \notin DOMAIN all_modules THEN lists
            ELSE [cc |-> inc.cc, cpp |-> inc.cpp, ld |-> add_module_link_flags(dep, module_platform_block(dep, target), target, abi, lists.ld)])

\* variant of collect_module_build_flags: the flags of the dependencies are
\* collected before the module's own flags
collect_module_build_flags_deps_first(module, target, abi) ==
  LET block == module_platform_block(module, target)
      deps == module_dep_flags(module, module.depends, target, abi, [cc |-> <<>>, cpp |-> <<>>, ld |-> <<>>])
      inc == add_module_include_flags(module, block, target, deps.cc, deps.cpp)
  IN [cc |-> AppendAllUnique(AppendAllUnique(inc.cc, module.main_cc_args), block.cc_args), cpp |-> AppendAllUnique(AppendAllUnique(inc.cpp, module.main_cpp_args), block.cpp_args), ld |-> AppendAllUnique(AppendAllUnique(deps.ld, module.main_ld_args), block.ld_args)]

\* collect_module_build_flags(module, target, abi, all_modules, ctx)
collect_module_build_flags(module, target, abi) ==
  LET block == module_platform_block(module, target)
      inc == add_module_include_flags(module, block, target, <<>>, <<>>)
      cc == AppendAllUnique(AppendAllUnique(inc.cc, module.main_cc_args), block.cc_args)
      cpp == AppendAllUnique(AppendAllUnique(inc.cpp, module.main_cpp_args), block.cpp_args)
      deps == module_dep_flags(module, module.depends, target, abi, [cc |-> cc, cpp |-> cpp, ld |-> <<>>])
  IN [cc |-> deps.cc, cpp |-> deps.cpp, ld |-> AppendAllUnique(AppendAllUnique(deps.ld, module.main_ld_args), block.ld_args)]

RECURSIVE project_module_flags(_, _, _, _)
\* collect_project_module_flags: the loop over expanded_modules; a name
\* that is not in the registry gets the flags of modules_root/<name>
project_module_flags(names, target, abi, lists) ==
  IF names = <<>> THEN lists
  ELSE LET name == Head(names)
           module == all_modules[name]
           inc == add_module_include_flags(module, module_platform_block(module, target), target, lists.cc, lists.cpp)
           suffix == include_suffix_for_target(target)
           fallback == <<<<"-I", name, "include">>, <<"-I", name, "include", suffix>>>>
           lib_dir == IF target = "android" THEN <<name, "Android", AbiName(abi)>> ELSE IF target = "web" THEN <<name, "Web">> ELSE <<name, "Linux">>
       IN project_module_flags(Tail(names), target, abi,
            IF name \in DOMAIN all_modules
              THEN [cc |-> inc.cc, cpp |-> inc.cpp, ld |-> add_module_link_flags(module, module_platform_block(module, target), target, abi, lists.ld)]
              ELSE [cc |-> AppendAllUnique(lists.cc, fallback), cpp |-> AppendAllUnique(lists.cpp, fallback), ld |-> append_unique(append_unique(lists.ld, <<"-L">> \o lib_dir), <<"-l", name>>)])

\* collect_project_module_flags(ctx, project, target, abi, active_modules,
\* all_modules, modules_root, cc_args, cpp_args, ld_args)
collect_project_module_flags(target, abi, active_modules, lists) == project_module_flags(closure_for_modules(active_modules, all_modules), target, abi, lists)

\* value.startswith(prefix) on the flags descriptors of the model use
startswith(value, prefix) == (prefix = "-O" /\ value \in {<<"-O0">>, <<"-O2">>}) \/ (prefix = "-g" /\ value \in {<<"-g3">>})

\* apply_desktop_mode_to_flags.filter_compile_flags
filter_compile_flags(flags) == SelectSeq(flags, LAMBDA value : value # <<>> /\ value \notin {<<"-DDEBUG">>, <<"-DNDEBUG">>, <<"-s">>} /\ ~startswith(value, "-O") /\ ~startswith(value, "-g"))

\* apply_desktop_mode_to_flags.filter_link_flags
filter_link_flags(flags, mode) == SelectSeq(flags, LAMBDA value : value # <<>> /\ ~(value \in {<<"-s">>, <<"-Wl,-s">>} /\ mode = "debug"))

\* the flags apply_desktop_mode_to_flags adds for the mode
debug_flags == <<<<"-O0">>, <<"-g3">>, <<"-DDEBUG">>, <<"-fno-omit-frame-pointer">>>>

release_flags == <<<<"-O2">>, <<"-DNDEBUG">>>>

\* apply_desktop_mode_to_flags(cc_args, cpp_args, ld_args, mode)
apply_desktop_mode_to_flags(lists, mode) ==
  [cc |-> filter_compile_flags(lists.cc) \o (IF mode = "debug" THEN debug_flags ELSE release_flags),
   cpp |-> filter_compile_flags(lists.cpp) \o (IF mode = "debug" THEN debug_flags ELSE release_flags),
   ld |-> filter_link_flags(lists.ld, mode)]

\* build_project_target: cc_args, cpp_args and ld_args from the project's
\* common and per-target lists and its include directories
project_own_flags(proj, target) ==
  LET inc == [k \in 1..Len(proj.include) |-> <<"-I", proj.include[k]>>]
  IN [cc |-> AppendAllUnique(proj.main_cc \o (IF target = "desktop" THEN proj.desktop_cc ELSE IF target = "android" THEN proj.android_cc ELSE proj.web_cc), inc),
      cpp |-> AppendAllUnique(proj.main_cpp \o (IF target = "desktop" THEN proj.desktop_cpp ELSE IF target = "android" THEN proj.android_cpp ELSE proj.web_cpp), inc),
      ld |-> proj.main_ld \o (IF target = "desktop" THEN proj.desktop_ld ELSE IF target = "android" THEN proj.android_ld ELSE proj.web_ld)]

\* build_module_target: the flags of one module for the target and ABI;
\* the desktop lists pass through the mode filter
BuildModuleFlags ==
  /\ f_pc = "start"
  /\ \E name \in DOMAIN all_modules, mode \in (IF f_target = "desktop" THEN {"debug", "release"} ELSE {"release"}) :
       LET lists == collect_module_build_flags(all_modules[name], f_target, f_abi)
           final == IF f_target = "desktop" THEN apply_desktop_mode_to_flags(lists, mode) ELSE lists
       IN /\ f_subject' = name
          /\ f_mode' = mode
          /\ collected' = lists
          /\ cc_args' = final.cc
          /\ cpp_args' = final.cpp
          /\ ld_args' = final.ld
  /\ f_pc' = "module"
  /\ UNCHANGED <<project, disk, f_target, f_abi>>
  /\ UNCHANGED notFlagVars

\* build_project_target: the flags of a project for the target and ABI;
\* on desktop the project's own lists pass through the mode filter before
\* the flags of the module closure are added
BuildProjectFlags ==
  /\ f_pc = "start"
  /\ \E proj \in Projects, mode \in (IF f_target = "desktop" THEN {"debug", "release"} ELSE {"release"}) :
       LET own == project_own_flags(proj, f_target)
           filtered == IF f_target = "desktop" THEN apply_desktop_mode_to_flags(own, mode) ELSE own
           final == collect_project_module_flags(f_target, f_abi, proj.modules, filtered)
       IN /\ project' = proj
          /\ f_mode' = mode
          /\ cc_args' = final.cc
          /\ cpp_args' = final.cpp
          /\ ld_args' = final.ld
  /\ f_subject' = "project"
  /\ f_pc' = "project"
  /\ UNCHANGED <<disk, f_target, f_abi, collected>>
  /\ UNCHANGED notFlagVars

FlagsInit ==
  /\ all_modules \in FlagRegistries
  /\ f_target \in {"desktop", "web", "android"}
  /\ f_abi \in (IF f_target = "android" THEN {0, 1} ELSE {0})
  /\ disk \in SUBSET {library_file_for_module(all_modules[n], f_target, f_abi) : n \in DOMAIN all_modules}
  /\ project = NoProject
  /\ f_mode = "release"
  /\ f_subject = "none"
  /\ collected = [cc |-> <<>>, cpp |-> <<>>, ld |-> <<>>]
  /\ cc_args = <<>>
  /\ cpp_args = <<>>
  /\ ld_args = <<>>
  /\ f_pc = "start"

FlagsNext ==
  \/ BuildModuleFlags
  \/ BuildProjectFlags

\* no flag composition is in progress
FlagsIdle ==
  /\ project = NoProject
  /\ disk = {}
  /\ f_target = "none"
  /\ f_abi = 0
  /\ f_mode = "release"
  /\ f_subject = "none"
  /\ collected = [cc |-> <<>>, cpp |-> <<>>, ld |-> <<>>]
  /\ cc_args = <<>>
  /\ cpp_args = <<>>
  /\ ld_args = <<>>
  /\ f_pc = "idle"

(***************************************************************************)
(* build_module_target and build_project_target (crosside_cli.py): the     *)
(* compile of a unit followed by its link, for each ABI on Android; the    *)
(* link functions desktop_build, web_build (native_build.py) and           *)
(* android_build (android_native_build.py).                                *)
(***************************************************************************)
\* is_cpp_source(path)
is_cpp_source(src) == src.ext \in {".cc", ".cpp", ".cxx", ".xpp", ".mm"}

\* any(is_cpp_source(src) for src in srcs)
AnyCpp(list) == \E k \in 1..Len(list) : is_cpp_source(list[k])

\* build_type: 2 for a static module, 1 for a shared one, 0 for a project
BuildType(unit) == IF unit.kind = "project" THEN 0 ELSE IF unit.static THEN 2 ELSE 1

\* the unit being built
Unit == units[u_i]

\* desktop_build: the processes it starts, in order
DesktopBuildTools(link_cpp, build_type) == IF build_type = 2 THEN <<"rm", "ar">> ELSE <<IF link_cpp THEN "g++" ELSE "gcc">>

\* web_build: the processes it starts, in order
WebBuildTools(link_cpp, is_static) == IF is_static THEN <<"emar">> ELSE <<IF link_cpp THEN "emcpp" ELSE "emcc">>

\* android_build: the processes it starts, in order
AndroidBuildTools(link_cpp, build_type) == IF build_type = 2 THEN <<"llvm-ar">> ELSE <<IF link_cpp THEN "clang++" ELSE "clang", "llvm-strip">>

\* the processes the link function of the target starts for the unit
BuildTools(unit) ==
  IF c_target = "desktop" THEN DesktopBuildTools(AnyCpp(unit.srcs), BuildType(unit))
  ELSE IF c_target = "web" THEN WebBuildTools(AnyCpp(unit.srcs), unit.kind = "module" /\ unit.static)
  ELSE AndroidBuildTools(AnyCpp(unit.srcs), BuildType(unit))

\* web_build: the object files found below obj/Web/<name>
WebObjects == {o \in DOMAIN objTime : o.root = "Web"}

\* desktop_build: export, the file the link writes below folder_root
desktop_build_export(folder_root, app_name, build_type) ==
  IF build_type = 0 THEN folder_root \o <<"", app_name, "">>
  ELSE IF build_type = 1 THEN folder_root \o <<"Linux", "", app_name, ".so">>
  ELSE folder_root \o <<"Linux", "lib", app_name, ".a">>

\* web_build: export, the file the link writes below folder_root
web_build_export(folder_root, app_name, is_static) ==
  IF is_static THEN folder_root \o <<"Web", "lib", app_name, ".a">>
  ELSE folder_root \o <<"Web", "", app_name, ".html">>

\* android_build: export, the file the link writes below folder_root
android_build_export(folder_root, name, build_type, abi) ==
  folder_root \o <<"Android", AbiName(abi), "lib", name, IF build_type = 2 THEN ".a" ELSE ".so">>

\* the file the link step of build_module_target writes for the module
module_build_export(module, target, abi) ==
  IF target = "desktop" THEN desktop_build_export(<<module.name>>, module.name, IF module.static THEN 2 ELSE 1)
  ELSE IF target = "web" THEN web_build_export(<<module.name>>, module.name, module.static)
  ELSE android_build_export(<<module.name>>, module.name, IF module.static THEN 2 ELSE 1, abi)

\* the link function returns False before it starts a process
BuildRefused == c_target = "web" /\ WebObjects = {}

\* list_objs of desktop_build, web_build and android_build: every .o file
\* found by the walk of the object folder of the unit for the target and
\* the ABI
list_objs == {o \in DOMAIN objTime : o.root = (IF c_target = "desktop" THEN "Linux" ELSE IF c_target = "web" THEN "Web" ELSE AbiName(arm))}

\* the processes a link function has started when the process failAt is
\* the first to exit nonzero (0: none does)
BuildEntries(tools, failAt) == [k \in 1..(IF failAt = 0 THEN Len(tools) ELSE failAt) |-> [tool |-> tools[k], unit |-> u_i, target |-> c_target, abi |-> arm, objs |-> list_objs, code |-> IF k = failAt THEN 1 ELSE 0]]

\* the call of the compile function of the target for the unit and ABI
StartCompile(unit, abi, objs) ==
  /\ srcs' = unit.srcs
  /\ objTime' = objs
  /\ arm' = abi
  /\ c_i' = 1
  /\ use_cpp' = FALSE
  /\ c_result' = "running"
  /\ c_pc' = "loop"
  /\ UNCHANGED <<c_target, full_build, srcTime, IsDone, invocations>>

\* the function returns without a call of the compile function
ReturnAtOnce(result) ==
  /\ u_result' = result
  /\ u_pc' = "return"
  /\ UNCHANGED <<a_i, ok>>
  /\ UNCHANGED compileVars

\* build_module_target up to the first call of the compile function
BuildModuleTarget ==
  /\ u_pc = "start"
  /\ Unit.kind = "module"
  /\ IF ~Unit.supported THEN ReturnAtOnce("True")
     ELSE IF Unit.srcs = <<>> THEN ReturnAtOnce("False")
     ELSE /\ StartCompile(Unit, IF c_target = "android" THEN abi_list[1] ELSE 0, Unit.objs)
          /\ a_i' = 1
          /\ ok' = TRUE
          /\ u_pc' = "compile"
          /\ UNCHANGED u_result
  /\ UNCHANGED <<units, u_i, abi_list, links>>
  /\ UNCHANGED notBuildVars

\* build_project_target, after the modules of the project are built, up to
\* the first call of the compile function
BuildProjectTarget ==
  /\ u_pc = "start"
  /\ Unit.kind = "project"
  /\ IF Unit.srcs = <<>> THEN ReturnAtOnce("False")
     ELSE /\ StartCompile(Unit, IF c_target = "android" THEN abi_list[1] ELSE 0, Unit.objs)
          /\ a_i' = 1
          /\ ok' = TRUE
          /\ u_pc' = "compile"
          /\ UNCHANGED u_result
  /\ UNCHANGED <<units, u_i, abi_list, links>>
  /\ UNCHANGED notBuildVars

\* the link function has run: linked is its result
AfterBuild(linked) ==
  IF c_target # "android"
    THEN /\ u_result' = IF linked THEN "True" ELSE "False"
         /\ u_pc' = "return"
         /\ UNCHANGED <<a_i, ok>>
         /\ UNCHANGED compileVars
    ELSE /\ ok' = (ok /\ linked)
         /\ IF a_i < Len(abi_list)
              THEN /\ a_i' = a_i + 1
                   /\ StartCompile(Unit, abi_list[a_i + 1], objTime)
                   /\ UNCHANGED <<u_result, u_pc>>
              ELSE /\ IF ok' /\ Unit.kind = "project"
                        THEN u_pc' = "package" /\ UNCHANGED u_result
                        ELSE u_pc' = "return" /\ u_result' = IF ok' THEN "True" ELSE "False"
                   /\ UNCHANGED a_i
                   /\ UNCHANGED compileVars

\* variant of AfterCompile: the unit is linked whatever the compile
\* function returned
AfterCompileAlwaysLinks ==
  \E failAt \in 0..Len(BuildTools(Unit)), archive_ok \in BOOLEAN :
     /\ links' = links \o BuildEntries(BuildTools(Unit), failAt)
     /\ AfterBuild(failAt = 0 /\ archive_ok)

\* from the return of the compile function to the next call of it or to
\* the return of the function: the link of the unit if the compile
\* succeeded, and on Android the step to the next ABI
AfterCompile ==
  IF c_result # "True"
    THEN /\ links' = links
         /\ AfterBuild(FALSE)
    ELSE IF BuildRefused
    THEN /\ links' = links
         /\ AfterBuild(FALSE)
    ELSE \E failAt \in 0..Len(BuildTools(Unit)), archive_ok \in BOOLEAN :
            /\ links' = links \o BuildEntries(BuildTools(Unit), failAt)
            /\ AfterBuild(failAt = 0 /\ (archive_ok \/ ~(c_target = "web" /\ Unit.kind = "module" /\ Unit.static)))

\* build_module_target from the return of the compile function
ModuleAfterCompile ==
  /\ u_pc = "compile"
  /\ c_pc = "return"
  /\ Unit.kind = "module"
  /\ AfterCompile
  /\ UNCHANGED <<units, u_i, abi_list>>
  /\ UNCHANGED notBuildVars

\* build_project_target from the return of the compile function
ProjectAfterCompile ==
  /\ u_pc = "compile"
  /\ c_pc = "return"
  /\ Unit.kind = "project"
  /\ AfterCompile
  /\ UNCHANGED <<units, u_i, abi_list>>
  /\ UNCHANGED notBuildVars

\* build_project_target: the packaging of the Android application, which
\* succeeds or fails
ProjectPackage ==
  /\ u_pc = "package"
  /\ \E packaged \in BOOLEAN : u_result' = IF packaged THEN "True" ELSE "False"
  /\ u_pc' = "return"
  /\ UNCHANGED <<units, u_i, abi_list, a_i, ok, links>>
  /\ UNCHANGED compileVars
  /\ UNCHANGED notBuildVars

\* normalize_abis: the lists it returns
AbiLists == {<<0>>, <<1>>, <<0, 1>>, <<1, 0>>}

\* the units of a build: a module (static or shared, built for the target
\* or not) or a project, with its sources and the objects of earlier builds
\* a source of an earlier build that is no longer in the source list
RemovedSource == [dir |-> "", stem |-> "old", ext |-> ".c"]

UnitInit ==
  /\ c_target \in {"desktop", "web", "android"}
  /\ abi_list \in (IF c_target = "android" THEN AbiLists ELSE {<<0, 1>>})
  /\ full_build \in BOOLEAN
  /\ \E l \in SourceLists, st \in BOOLEAN, k \in {"module", "project", "skipped"}, t \in Times :
       /\ srcTime \in FileTimes(Range(l), {t})
       /\ \E o \in {<<>>, [f \in {ObjName(c_target, x, a) : x \in Range(l), a \in Range(abi_list)} |-> now], [f \in {ObjName(c_target, x, a) : x \in Range(l) \cup {RemovedSource}, a \in Range(abi_list)} |-> now]} :
            units = <<[kind |-> IF k = "skipped" THEN "module" ELSE k, static |-> st /\ k # "project", supported |-> k # "skipped", srcs |-> l, objs |-> o]>>
  /\ u_i = 1
  /\ a_i = 1
  /\ ok = TRUE
  /\ links = <<>>
  /\ u_result = "running"
  /\ u_pc = "start"
  /\ arm = 0
  /\ srcs = <<>>
  /\ objTime = <<>>
  /\ IsDone = FALSE
  /\ c_i = 1
  /\ use_cpp = FALSE
  /\ invocations = <<>>
  /\ c_result = "running"
  /\ c_pc = "idle"

UnitNext ==
  \/ BuildModuleTarget
  \/ BuildProjectTarget
  \/ ModuleAfterCompile
  \/ ProjectAfterCompile
  \/ ProjectPackage
  \/ DesktopCompileNext
  \/ DesktopCompileExit
  \/ WebCompileNext
  \/ WebCompileExit
  \/ AndroidCompileNext
  \/ AndroidCompileExit
  \/ RequestStop

\* no unit is being built
UnitIdle ==
  /\ units = <<>>
  /\ u_i = 1
  /\ abi_list = <<>>
  /\ a_i = 1
  /\ ok = TRUE
  /\ links = <<>>
  /\ u_result = "running"
  /\ u_pc = "idle"

(***************************************************************************)
(* command_build (crosside_cli.py): the request is normalized, then each   *)
(* target is checked for its toolchain and built unit by unit.             *)
(***************************************************************************)
\* TARGET_ALIASES
TARGET_ALIASES == [desktop |-> "desktop", linux |-> "desktop", native |-> "desktop", android |-> "android", web |-> "web", emscripten |-> "web"]

\* normalize_abis: aliases
ABI_ALIASES == [arm7 |-> 0, armeabi_v7a |-> 0, armeabi |-> 0, arm64 |-> 1, arm64_v8a |-> 1, aarch64 |-> 1]

\* the result of a function that raised ValueError
ValueError == "ValueError"

RECURSIVE normalize_targets_loop(_, _)
\* normalize_targets: the loop over the tokens; normalize_target raises on
\* a token that is no alias
normalize_targets_loop(tokens, out) ==
  IF tokens = <<>> THEN out
  ELSE IF Head(tokens) \notin DOMAIN TARGET_ALIASES THEN ValueError
  ELSE normalize_targets_loop(Tail(tokens), IF TARGET_ALIASES[Head(tokens)] \in Range(out) THEN out ELSE Append(out, TARGET_ALIASES[Head(tokens)]))

RECURSIVE normalize_targets_lenient_loop(_, _)
normalize_targets_lenient_loop(tokens, out) ==
  IF tokens = <<>> THEN out
  ELSE normalize_targets_lenient_loop(Tail(tokens), IF Head(tokens) \notin DOMAIN TARGET_ALIASES \/ TARGET_ALIASES[Head(tokens)] \in Range(out) THEN out ELSE Append(out, TARGET_ALIASES[Head(tokens)]))

\* variant of normalize_targets: a token that is no alias is left out
normalize_targets_lenient(tokens, default) == IF tokens = <<>> THEN <<default>> ELSE normalize_targets_lenient_loop(tokens, <<>>)

\* normalize_targets(tokens, default_target)
normalize_targets(tokens, default) == IF tokens = <<>> THEN <<default>> ELSE normalize_targets_loop(tokens, <<>>)

RECURSIVE normalize_abis_loop(_, _)
\* normalize_abis: the loop over the requested tokens
normalize_abis_loop(requested, abis) ==
  IF requested = <<>> THEN abis
  ELSE IF Head(requested) \notin DOMAIN ABI_ALIASES THEN ValueError
  ELSE normalize_abis_loop(Tail(requested), IF ABI_ALIASES[Head(requested)] \in Range(abis) THEN abis ELSE Append(abis, ABI_ALIASES[Head(requested)]))

\* normalize_abis(raw), raw split at the commas
normalize_abis(requested) == IF requested = <<>> THEN <<0, 1>> ELSE normalize_abis_loop(requested, <<>>)

\* toolchain_ready_for_target: the paths checked for the target, in order
ToolchainChecks(target) ==
  IF target = "web" THEN <<"emcc", "emcpp", "emar">>
  ELSE IF target = "android" THEN <<"ANDROID_NDK", "ANDROID_SDK", "AAPT", "DX", "APKSIGNER", "PLATFORM">>
  ELSE <<>>

\* toolchain_ready_for_target: missing
MissingPaths(target) == SelectSeq(ToolchainChecks(target), LAMBDA path : path \notin present)

\* the command returns code
Return(code) ==
  /\ exit_code' = code
  /\ cmd_pc' = "done"

\* command_build up to the loop over the targets; a ValueError of
\* normalize_targets or normalize_abis ends the command in main with code 1
CommandBuild ==
  /\ cmd_pc = "start"
  /\ IF normalize_targets(raw_targets, default_target) = ValueError \/ normalize_abis(raw_abis) = ValueError
       THEN /\ Return(1)
            /\ UNCHANGED <<targets, abi_list>>
       ELSE /\ targets' = normalize_targets(raw_targets, default_target)
            /\ abi_list' = normalize_abis(raw_abis)
            /\ cmd_pc' = "target"
            /\ UNCHANGED exit_code
  /\ UNCHANGED <<subject_kind, raw_targets, raw_abis, default_target, present, subject_file, dry_run, t_i, missing>>
  /\ UNCHANGED <<units, u_i, a_i, ok, links, u_result, u_pc>>
  /\ UNCHANGED <<resolverVars, flagVars, compileVars, pipelineVars, webVars>>

\* variant of CommandTarget: the toolchain of the target is not checked
CommandTargetUnchecked ==
  /\ cmd_pc = "target"
  /\ IF t_i > Len(targets)
       THEN /\ Return(0)
            /\ UNCHANGED <<missing, t_i, u_i, u_pc, c_target>>
       ELSE IF ~subject_file
       THEN /\ Return(1)
            /\ UNCHANGED <<missing, t_i, u_i, u_pc, c_target>>
       ELSE IF dry_run
       THEN /\ t_i' = t_i + 1
            /\ UNCHANGED <<missing, exit_code, cmd_pc, u_i, u_pc, c_target>>
       ELSE /\ c_target' = targets[t_i]
            /\ u_i' = 1
            /\ u_pc' = "start"
            /\ cmd_pc' = "build"
            /\ UNCHANGED <<missing, exit_code, t_i>>
  /\ UNCHANGED <<subject_kind, raw_targets, raw_abis, default_target, present, subject_file, dry_run, targets>>
  /\ UNCHANGED <<units, abi_list, a_i, ok, links, u_result>>
  /\ UNCHANGED <<arm, full_build, srcs, srcTime, objTime, IsDone, c_i, use_cpp, invocations, c_result, c_pc>>
  /\ UNCHANGED <<resolverVars, flagVars, pipelineVars, webVars>>

\* command_build: the head of the loop over the targets up to the build of
\* the first unit of the target
CommandTarget ==
  /\ cmd_pc = "target"
  /\ IF t_i > Len(targets)
       THEN /\ Return(0)
            /\ UNCHANGED <<missing, t_i, u_i, u_pc, c_target>>
       ELSE IF MissingPaths(targets[t_i]) # <<>>
       THEN /\ missing' = MissingPaths(targets[t_i])
            /\ Return(1)
            /\ UNCHANGED <<t_i, u_i, u_pc, c_target>>
       ELSE IF ~subject_file
       THEN /\ Return(1)
            /\ UNCHANGED <<missing, t_i, u_i, u_pc, c_target>>
       ELSE IF dry_run
       THEN /\ t_i' = t_i + 1
            /\ UNCHANGED <<missing, exit_code, cmd_pc, u_i, u_pc, c_target>>
       ELSE /\ c_target' = targets[t_i]
            /\ u_i' = 1
            /\ u_pc' = "start"
            /\ cmd_pc' = "build"
            /\ UNCHANGED <<missing, exit_code, t_i>>
  /\ UNCHANGED <<subject_kind, raw_targets, raw_abis, default_target, present, subject_file, dry_run, targets>>
  /\ UNCHANGED <<units, abi_list, a_i, ok, links, u_result>>
  /\ UNCHANGED <<arm, full_build, srcs, srcTime, objTime, IsDone, c_i, use_cpp, invocations, c_result, c_pc>>
  /\ UNCHANGED <<resolverVars, flagVars, pipelineVars, webVars>>

\* variant of CommandUnitDone: a failed unit does not end the command
CommandUnitDoneGoesOn ==
  /\ cmd_pc = "build"
  /\ u_pc = "return"
  /\ IF u_i < Len(units)
       THEN /\ u_i' = u_i + 1
            /\ u_pc' = "start"
            /\ UNCHANGED <<t_i, exit_code, cmd_pc>>
       ELSE /\ t_i' = t_i + 1
            /\ cmd_pc' = "target"
            /\ UNCHANGED <<u_i, u_pc, exit_code>>
  /\ UNCHANGED <<subject_kind, raw_targets, raw_abis, default_target, present, subject_file, dry_run, targets, missing>>
  /\ UNCHANGED <<units, abi_list, a_i, ok, links, u_result>>
  /\ UNCHANGED <<resolverVars, flagVars, compileVars, pipelineVars, webVars>>

\* command_build: build_module_target or build_project_target has
\* returned; a failure ends the command with code 1, a success goes on to
\* the next unit of the target or to the next target
CommandUnitDone ==
  /\ cmd_pc = "build"
  /\ u_pc = "return"
  /\ IF u_result # "True"
       THEN /\ Return(1)
            /\ UNCHANGED <<t_i, u_i, u_pc>>
       ELSE IF u_i < Len(units)
       THEN /\ u_i' = u_i + 1
            /\ u_pc' = "start"
            /\ UNCHANGED <<t_i, exit_code, cmd_pc>>
       ELSE /\ t_i' = t_i + 1
            /\ cmd_pc' = "target"
            /\ UNCHANGED <<u_i, u_pc, exit_code>>
  /\ UNCHANGED <<subject_kind, raw_targets, raw_abis, default_target, present, subject_file, dry_run, targets, missing>>
  /\ UNCHANGED <<units, abi_list, a_i, ok, links, u_result>>
  /\ UNCHANGED <<resolverVars, flagVars, compileVars, pipelineVars, webVars>>

\* the most target tokens and the most ABI tokens of a request
MaxTokens == 2

\* the target tokens of the requests: aliases and a token that is none
TargetTokens == {"linux", "android", "web", "ios"}

\* the ABI tokens of the requests: aliases and a token that is none
AbiTokens == {"arm7", "arm64", "x86"}

\* every toolchain path that is checked
AllPaths == Range(ToolchainChecks("web")) \cup Range(ToolchainChecks("android"))

\* the toolchains of the machines: complete, or with paths missing
PresentChoices == {AllPaths \ gone : gone \in {{}, {"AAPT", "DX"}, {"emar"}}}

\* a unit with one source file and no object from an earlier build
PlainUnit(k, st) == [kind |-> k, static |-> st, supported |-> TRUE, srcs |-> <<[dir |-> "", stem |-> "a", ext |-> ".c"]>>, objs |-> <<>>]

\* the units of a request: the build order of a module, or the modules of
\* a project followed by the project
CommandUnits(k) == IF k = "module" THEN {<<PlainUnit("module", TRUE)>>, <<PlainUnit("module", FALSE), PlainUnit("module", TRUE)>>} ELSE {<<PlainUnit("project", FALSE)>>, <<PlainUnit("module", TRUE), PlainUnit("project", FALSE)>>}

CommandInit ==
  /\ subject_kind \in {"module", "app"}
  /\ units \in CommandUnits(subject_kind)
  /\ raw_targets \in SeqsUpTo(TargetTokens, MaxTokens)
  /\ raw_abis \in SeqsUpTo(AbiTokens, MaxTokens)
  /\ default_target \in (IF raw_targets = <<>> THEN {"desktop", "android", "web"} ELSE {"desktop"})
  /\ present \in PresentChoices
  /\ subject_file \in BOOLEAN
  /\ dry_run \in BOOLEAN
  /\ targets = <<>>
  /\ t_i = 1
  /\ missing = <<>>
  /\ exit_code = -1
  /\ cmd_pc = "start"
  /\ u_i = 1
  /\ abi_list = <<>>
  /\ a_i = 1
  /\ ok = TRUE
  /\ links = <<>>
  /\ u_result = "running"
  /\ u_pc = "idle"
  /\ c_target = "none"
  /\ arm = 0
  /\ full_build = FALSE
  /\ srcs = <<>>
  /\ srcTime = [f \in {[dir |-> "", stem |-> "a", ext |-> ".c"]} |-> 0]
  /\ objTime = <<>>
  /\ IsDone = FALSE
  /\ c_i = 1
  /\ use_cpp = FALSE
  /\ invocations = <<>>
  /\ c_result = "running"
  /\ c_pc = "idle"

CommandNext ==
  \/ CommandBuild
  \/ CommandTarget
  \/ CommandUnitDone
  \/ BuildModuleTarget
  \/ BuildProjectTarget
  \/ ModuleAfterCompile
  \/ ProjectAfterCompile
  \/ ProjectPackage
  \/ DesktopCompileNext
  \/ DesktopCompileExit
  \/ WebCompileNext
  \/ WebCompileExit
  \/ AndroidCompileNext
  \/ AndroidCompileExit

\* no command is running
CommandIdle ==
  /\ subject_kind = "none"
  /\ raw_targets = <<>>
  /\ raw_abis = <<>>
  /\ default_target = "desktop"
  /\ present = {}
  /\ subject_file = FALSE
  /\ dry_run = FALSE
  /\ targets = <<>>
  /\ t_i = 1
  /\ missing = <<>>
  /\ exit_code = -1
  /\ cmd_pc = "idle"

(***************************************************************************)
(* android_compile_java_native (ide_utils/android_pipeline.py): the        *)
(* packaging of an Android app, one action per external tool; called with  *)
(* app_type 0 as build_project_target does.                                *)
(***************************************************************************)
\* the most java sources of an app, and the most packaging runs in a row
MaxJava == 1

MaxRuns == 2

\* the package (sanitized), the activity and the app name of the call
Request == [package |-> "com.a", activity |-> "android.app.NativeActivity", app_name |-> "game"]

\* icon references: none, the one of the manifest template, the fallback,
\* and one that names a drawable
NoIcon == [ns |-> "", type |-> "", name |-> ""]

TemplateIcon == [ns |-> "", type |-> "mipmap", name |-> "ic_launcher"]

FallbackIcon == [ns |-> "android", type |-> "drawable", name |-> "sym_def_app_icon"]

LogoIcon == [ns |-> "", type |-> "drawable", name |-> "logo"]

\* no manifest file
NoManifest == [exists |-> FALSE, package |-> "", activity |-> "", lib |-> "", icon |-> NoIcon]

\* build_native_manifest of the template, whose icon is @mipmap/ic_launcher
build_native_manifest(package_name, activity, lib_name) == [exists |-> TRUE, package |-> package_name, activity |-> activity, lib |-> lib_name, icon |-> TemplateIcon]

\* _has_android_resource(res_root, resource_ref) for a reference that
\* starts with @
has_android_resource(res_root, ref) ==
  IF ref.ns = "android" THEN TRUE
  ELSE IF ref.type = "" \/ ref.name = "" THEN FALSE
  ELSE \E entry \in res_root : entry.type = ref.type /\ entry.name = ref.name

\* _ensure_manifest_icon_fallback: the manifest it leaves
ensure_manifest_icon_fallback(m, res_root) ==
  IF ~m.exists \/ m.icon = NoIcon THEN m
  ELSE IF has_android_resource(res_root, m.icon) THEN m
  ELSE [m EXCEPT !.icon = FallbackIcon]

\* the existing manifest names the package, the activity and the library
\* of the call
ManifestMatches(m) == m.exists /\ m.package = Request.package /\ m.activity = Request.activity /\ m.lib = Request.app_name

\* the exit codes of the external tools
ExitCodes == {0, 1}

\* an entry of the log of the tools
Ran(tool, code) == [tool |-> tool, code |-> code, step |-> p_pc]

\* return False
PipelineFails ==
  /\ p_result' = "False"
  /\ p_pc' = "return"

\* the step is over and the next one follows
PipelineGoes(step) ==
  /\ p_pc' = step
  /\ UNCHANGED p_result

\* the folders, the manifest and the check of its icon
PipelinePrepare ==
  /\ p_pc = "start"
  /\ before' = [manifest |-> manifest, files |-> files]
  /\ manifest' = ensure_manifest_icon_fallback(IF ManifestMatches(manifest) THEN manifest ELSE build_native_manifest(Request.package, Request.activity, Request.app_name), res)
  /\ PipelineGoes("key")
  /\ UNCHANGED <<res, files, java, dx8_exists, run_app, tool_log, j_i, runs>>
  /\ UNCHANGED <<native_libs, apk, p_trace>>
  /\ UNCHANGED <<resolverVars, compileVars, flagVars, unitVars, commandVars, webVars>>

\* the debug key, generated with keytool unless the file exists
PipelineKey ==
  /\ p_pc = "key"
  /\ IF "key" \in files
       THEN /\ PipelineGoes("resources")
            /\ UNCHANGED <<files, tool_log>>
       ELSE \E code \in ExitCodes :
              /\ tool_log' = Append(tool_log, Ran("keytool", code))
              /\ IF code # 0
                   THEN /\ PipelineFails
                        /\ UNCHANGED files
                   ELSE /\ files' = files \cup {"key"}
                        /\ PipelineGoes("resources")
  /\ UNCHANGED <<manifest, res, java, dx8_exists, run_app, j_i, runs, before>>
  /\ UNCHANGED <<native_libs, apk, p_trace>>
  /\ UNCHANGED <<resolverVars, compileVars, flagVars, unitVars, commandVars, webVars>>

\* the stale R.java files are removed, then aapt generates the resources
PipelineResources ==
  /\ p_pc = "resources"
  /\ \E code \in ExitCodes :
       /\ tool_log' = Append(tool_log, Ran("aapt", code))
       /\ IF code # 0
            THEN /\ files' = files \ {"R.java"}
                 /\ PipelineFails
                 /\ UNCHANGED j_i
            ELSE /\ files' = files \cup {"R.java"}
                 /\ j_i' = 1
                 /\ PipelineGoes("javac")
  /\ UNCHANGED <<manifest, res, java, dx8_exists, run_app, runs, before>>
  /\ UNCHANGED <<native_libs, apk, p_trace>>
  /\ UNCHANGED <<resolverVars, compileVars, flagVars, unitVars, commandVars, webVars>>

\* one turn of the loop over the java sources: the source is skipped when
\* its class file is not older, and compiled with javac otherwise
PipelineJavac ==
  /\ p_pc = "javac"
  /\ IF j_i > Len(java)
       THEN /\ PipelineGoes("translate")
            /\ UNCHANGED <<java, j_i, tool_log>>
       ELSE IF java[j_i] = "new"
       THEN /\ j_i' = j_i + 1
            /\ UNCHANGED <<java, tool_log, p_pc, p_result>>
       ELSE \E code \in ExitCodes :
              /\ tool_log' = Append(tool_log, Ran("javac", code))
              /\ IF code # 0
                   THEN /\ PipelineFails
                        /\ UNCHANGED <<java, j_i>>
                   ELSE /\ java' = [java EXCEPT ![j_i] = "new"]
                        /\ j_i' = j_i + 1
                        /\ UNCHANGED <<p_pc, p_result>>
  /\ UNCHANGED <<manifest, res, files, dx8_exists, run_app, runs, before>>
  /\ UNCHANGED <<native_libs, apk, p_trace>>
  /\ UNCHANGED <<resolverVars, compileVars, flagVars, unitVars, commandVars, webVars>>

\* class_files: some class file is in the out folder, the class of a
\* source or one that no source of the request stands for
ClassFiles == "stale.class" \in files \/ \E k \in 1..Len(java) : java[k] # "none"

\* the tools of the translation for the exit codes of d8 and dx: d8 when
\* it exists, then dx when code is still not 0
TranslateEntries(c8, cdx) == (IF dx8_exists THEN <<Ran("d8", c8)>> ELSE <<>>) \o (IF (IF dx8_exists THEN c8 ELSE 1) # 0 THEN <<Ran("dx", cdx)>> ELSE <<>>)

\* variant of PipelineTranslate: dx is run whether or not d8 succeeded
PipelineTranslateAlwaysLegacy ==
  /\ p_pc = "translate"
  /\ IF ~ClassFiles
       THEN /\ files' = files \ {"classes.dex"}
            /\ PipelineGoes("package")
            /\ UNCHANGED tool_log
       ELSE \E c8 \in ExitCodes, cdx \in ExitCodes :
              /\ tool_log' = tool_log \o (IF dx8_exists THEN <<Ran("d8", c8)>> ELSE <<>>) \o <<Ran("dx", cdx)>>
              /\ IF cdx # 0
                   THEN /\ files' = files \ {"classes.dex"}
                        /\ PipelineFails
                   ELSE /\ files' = files \cup {"classes.dex"}
                        /\ PipelineGoes("package")
  /\ UNCHANGED <<manifest, res, java, dx8_exists, run_app, j_i, runs, before>>
  /\ UNCHANGED <<native_libs, apk, p_trace>>
  /\ UNCHANGED <<resolverVars, compileVars, flagVars, unitVars, commandVars, webVars>>

\* the stale dex files are removed, then the class files, if any, are
\* translated
PipelineTranslate ==
  /\ p_pc = "translate"
  /\ IF ~ClassFiles
       THEN /\ files' = files \ {"classes.dex"}
            /\ PipelineGoes("package")
            /\ UNCHANGED tool_log
       ELSE \E c8 \in ExitCodes, cdx \in ExitCodes :
              /\ tool_log' = tool_log \o TranslateEntries(c8, cdx)
              /\ IF (IF dx8_exists THEN c8 ELSE 1) # 0 /\ cdx # 0
                   THEN /\ files' = files \ {"classes.dex"}
                        /\ PipelineFails
                   ELSE /\ files' = files \cup {"classes.dex"}
                        /\ PipelineGoes("package")
  /\ UNCHANGED <<manifest, res, java, dx8_exists, run_app, j_i, runs, before>>
  /\ UNCHANGED <<native_libs, apk, p_trace>>
  /\ UNCHANGED <<resolverVars, compileVars, flagVars, unitVars, commandVars, webVars>>

\* the library of the ABI exists under Android/<abi>/
LibExists(abi) == abi \in native_libs.exist

\* the name of the library of the ABI in the archive
LibEntry(abi) == <<"lib", AbiName(abi), "lib", Request.app_name, ".so">>

\* what the archive holds once the libraries and the dex files are added
ArchiveEntries == {LibEntry(abi) : abi \in {a \in {0, 1} : LibExists(a)}} \cup (IF "classes.dex" \in files THEN {<<"classes.dex">>} ELSE {})

\* the traces of the two libraries, armeabi-v7a first
LibTraces == [k \in 1..2 |-> <<IF LibExists(k - 1) THEN "insert" ELSE "missing", AbiName(k - 1)>>]

\* variant of PipelinePackage: a library that is missing ends the run
PipelinePackageNeedsLibs ==
  /\ p_pc = "package"
  /\ \E code \in ExitCodes :
       /\ tool_log' = Append(tool_log, Ran("aapt", code))
       /\ IF code # 0
            THEN /\ PipelineFails
                 /\ UNCHANGED <<files, apk, p_trace>>
            ELSE /\ files' = files \cup {"unaligned.apk"}
                 /\ apk' = ArchiveEntries
                 /\ p_trace' = p_trace \o LibTraces
                 /\ IF \A abi \in {0, 1} : LibExists(abi) THEN PipelineGoes("sign") ELSE PipelineFails
  /\ UNCHANGED <<manifest, res, java, dx8_exists, run_app, j_i, runs, before>>
  /\ UNCHANGED native_libs
  /\ UNCHANGED <<resolverVars, compileVars, flagVars, unitVars, commandVars, webVars>>

\* aapt packs the unaligned archive anew; the library of each of the two
\* ABIs is added when its file exists and traced as missing otherwise, then
\* the dex files of the dex folder are added
PipelinePackage ==
  /\ p_pc = "package"
  /\ \E code \in ExitCodes :
       /\ tool_log' = Append(tool_log, Ran("aapt", code))
       /\ IF code # 0
            THEN /\ PipelineFails
                 /\ UNCHANGED <<files, apk, p_trace>>
            ELSE /\ files' = files \cup {"unaligned.apk"}
                 /\ apk' = ArchiveEntries
                 /\ p_trace' = p_trace \o LibTraces
                 /\ PipelineGoes("sign")
  /\ UNCHANGED <<manifest, res, java, dx8_exists, run_app, j_i, runs, before>>
  /\ UNCHANGED native_libs
  /\ UNCHANGED <<resolverVars, compileVars, flagVars, unitVars, commandVars, webVars>>

\* variant of PipelineSign: a failed signing removes the unaligned archive
PipelineSignCleansUp ==
  /\ p_pc = "sign"
  /\ \E code \in ExitCodes :
       /\ tool_log' = Append(tool_log, Ran("apksigner", code))
       /\ IF code # 0
            THEN /\ PipelineFails
                 /\ files' = files \ {"unaligned.apk"}
            ELSE /\ files' = files \cup {"signed.apk"}
                 /\ PipelineGoes("install")
  /\ UNCHANGED <<manifest, res, java, dx8_exists, run_app, j_i, runs, before>>
  /\ UNCHANGED <<native_libs, apk, p_trace>>
  /\ UNCHANGED <<resolverVars, compileVars, flagVars, unitVars, commandVars, webVars>>

\* apksigner signs the archive
PipelineSign ==
  /\ p_pc = "sign"
  /\ \E code \in ExitCodes :
       /\ tool_log' = Append(tool_log, Ran("apksigner", code))
       /\ IF code # 0
            THEN /\ PipelineFails
                 /\ UNCHANGED files
            ELSE /\ files' = files \cup {"signed.apk"}
                 /\ PipelineGoes("install")
  /\ UNCHANGED <<manifest, res, java, dx8_exists, run_app, j_i, runs, before>>
  /\ UNCHANGED <<native_libs, apk, p_trace>>
  /\ UNCHANGED <<resolverVars, compileVars, flagVars, unitVars, commandVars, webVars>>

\* the app is stopped and installed: a failed install is followed by an
\* uninstall and, when that succeeded, by a second install whose result is
\* not looked at
PipelineInstall ==
  /\ p_pc = "install"
  /\ \E stop \in ExitCodes, first \in ExitCodes, removed \in ExitCodes, second \in ExitCodes :
       tool_log' = tool_log \o <<Ran("adb force-stop", stop), Ran("adb install", first)>>
                            \o (IF first # 0 THEN <<Ran("adb uninstall", removed)>> ELSE <<>>)
                            \o (IF first # 0 /\ removed = 0 THEN <<Ran("adb install", second)>> ELSE <<>>)
  /\ IF run_app
       THEN PipelineGoes("run")
       ELSE /\ p_result' = "True"
            /\ p_pc' = "return"
  /\ UNCHANGED <<manifest, res, files, java, dx8_exists, run_app, j_i, runs, before>>
  /\ UNCHANGED <<native_libs, apk, p_trace>>
  /\ UNCHANGED <<resolverVars, compileVars, flagVars, unitVars, commandVars, webVars>>

\* the app is started
PipelineRun ==
  /\ p_pc = "run"
  /\ \E code \in ExitCodes :
       /\ tool_log' = Append(tool_log, Ran("adb start", code))
       /\ p_result' = IF code # 0 THEN "False" ELSE "True"
       /\ p_pc' = "return"
  /\ UNCHANGED <<manifest, res, files, java, dx8_exists, run_app, j_i, runs, before>>
  /\ UNCHANGED <<native_libs, apk, p_trace>>
  /\ UNCHANGED <<resolverVars, compileVars, flagVars, unitVars, commandVars, webVars>>

\* the app is packaged once more; the log starts anew
PipelineAgain ==
  /\ p_pc = "return"
  /\ runs < MaxRuns
  /\ runs' = runs + 1
  /\ tool_log' = <<>>
  /\ j_i' = 1
  /\ p_result' = "running"
  /\ p_pc' = "start"
  /\ UNCHANGED <<manifest, res, files, java, dx8_exists, run_app, before>>
  /\ p_trace' = <<>>
  /\ UNCHANGED <<native_libs, apk>>
  /\ UNCHANGED <<resolverVars, compileVars, flagVars, unitVars, commandVars, webVars>>

\* the manifests found before a run: none, one that matches the call with
\* each of the icons, and one of another package
Manifests == {NoManifest, [build_native_manifest("com.b", Request.activity, Request.app_name) EXCEPT !.icon = TemplateIcon]} \cup {[build_native_manifest(Request.package, Request.activity, Request.app_name) EXCEPT !.icon = i] : i \in {NoIcon, TemplateIcon, FallbackIcon, LogoIcon}}

\* the res folders: empty, with the launcher icon in a density bucket, and
\* with a drawable of the same name
ResFolders == {{}, {[type |-> "mipmap", qualifier |-> "hdpi", name |-> "ic_launcher"]}, {[type |-> "drawable", qualifier |-> "", name |-> "ic_launcher"]}}

\* everything an earlier run has left
AllFiles == {"key", "R.java", "stale.class", "classes.dex", "unaligned.apk", "signed.apk"}

\* the libraries when the packaging starts: the one of every ABI of the
\* request was linked, the one of another ABI may be left by an earlier build
NativeLibs == {[requested |-> Range(l), exist |-> Range(l) \cup old] : l \in AbiLists, old \in SUBSET {0, 1}}

PipelineInit ==
  /\ manifest \in Manifests
  /\ res \in ResFolders
  /\ files \in {{}, AllFiles}
  /\ java \in SeqsUpTo({"none", "old", "new"}, MaxJava)
  /\ dx8_exists \in BOOLEAN
  /\ run_app \in BOOLEAN
  /\ tool_log = <<>>
  /\ j_i = 1
  /\ runs = 1
  /\ before = [manifest |-> manifest, files |-> files]
  /\ p_result = "running"
  /\ p_pc = "start"
  /\ native_libs \in NativeLibs
  /\ apk = {}
  /\ p_trace = <<>>

PipelineNext ==
  \/ PipelinePrepare
  \/ PipelineKey
  \/ PipelineResources
  \/ PipelineJavac
  \/ PipelineTranslate
  \/ PipelinePackage
  \/ PipelineSign
  \/ PipelineInstall
  \/ PipelineRun
  \/ PipelineAgain

\* no app is being packaged
PipelineIdle ==
  /\ manifest = NoManifest
  /\ res = {}
  /\ files = {}
  /\ java = <<>>
  /\ dx8_exists = FALSE
  /\ run_app = FALSE
  /\ tool_log = <<>>
  /\ j_i = 1
  /\ runs = 1
  /\ before = [manifest |-> NoManifest, files |-> {}]
  /\ p_result = "running"
  /\ p_pc = "idle"
  /\ native_libs = [requested |-> {}, exist |-> {}]
  /\ apk = {}
  /\ p_trace = <<>>

(***************************************************************************)
(* The link flags of a web build: append_web_template_and_assets           *)
(* (crosside_cli.py) for a project, then the normalization of web_build    *)
(* (ide_utils/native_build.py) for every link that is not static.  A       *)
(* setting NAME=VALUE is the tuple <<NAME, VALUE>>, the flag -sNAME=VALUE  *)
(* the tuple <<"-s", NAME, VALUE>>; VALUE "" stands for a setting without  *)
(* "=VALUE".  Every flag of the model is longer than one character.        *)
(***************************************************************************)
\* the most link flags of the list composed for the unit
MaxLd == 2

\* preload_entries
preload_entries == <<"scripts", "assets", "resources", "data", "media">>

RECURSIVE append_preloads(_, _, _)
\* append_web_template_and_assets: the loop over preload_entries
append_preloads(ld, entries, folders) ==
  IF entries = <<>> THEN ld
  ELSE append_preloads(IF Head(entries) \in folders THEN append_unique(append_unique(ld, <<"--preload-file">>), <<Head(entries), "@/", Head(entries)>>) ELSE ld, Tail(entries), folders)

\* append_web_template_and_assets(ctx, project, active_modules, all_modules,
\* ld_args): the list ld_args after the call
append_web_template_and_assets(ld, template, folders) ==
  append_preloads(IF template # "" THEN append_unique(append_unique(ld, <<"--shell-file">>), <<template>>) ELSE ld, preload_entries, folders)

RECURSIVE normalize_ldargs(_, _)
\* web_build: the loop that joins "-s" with the setting after it
normalize_ldargs(ldargs, normalized) ==
  IF ldargs = <<>> THEN normalized
  ELSE IF Head(ldargs) = <<"-s">> /\ Len(ldargs) >= 2
  THEN normalize_ldargs(Tail(Tail(ldargs)), Append(normalized, <<"-s">> \o ldargs[2]))
  ELSE normalize_ldargs(Tail(ldargs), Append(normalized, Head(ldargs)))

\* the names of the settings of the model that begin with ASYNCIFY
AsyncifyPrefixed == {"ASYNCIFY", "ASYNCIFY_STACK_SIZE"}

\* arg.startswith("-sASYNCIFY")
has_asyncify(normalized) == \E k \in 1..Len(normalized) : Len(normalized[k]) >= 2 /\ normalized[k][1] = "-s" /\ normalized[k][2] \in AsyncifyPrefixed

\* arg.startswith("-sEXPORTED_RUNTIME_METHODS=")
has_exported_runtime_methods(normalized) == \E k \in 1..Len(normalized) : Len(normalized[k]) = 3 /\ normalized[k][1] = "-s" /\ normalized[k][2] = "EXPORTED_RUNTIME_METHODS" /\ normalized[k][3] # ""

\* the two flags web_build appends
DefaultAsyncify == <<"-s", "ASYNCIFY", "">>

DefaultExported == <<"-s", "EXPORTED_RUNTIME_METHODS", "['HEAP8',...,'ccall','cwrap']">>

\* web_build: normalized_ldargs, the link flags handed to the linker
normalized_ldargs(ldargs) ==
  LET normalized == normalize_ldargs(ldargs, <<>>)
      withAsync == IF has_asyncify(normalized) THEN normalized ELSE Append(normalized, DefaultAsyncify)
  IN IF has_exported_runtime_methods(normalized) THEN withAsync ELSE Append(withAsync, DefaultExported)

\* build_project_target, target web: the template and the preload folders
\* are added to the link flags
ProjectWebFlags ==
  /\ w_pc = "flags"
  /\ w_ld_args' = append_web_template_and_assets(w_ld_args, web_project.template, web_project.folders)
  /\ w_pc' = "build"
  /\ UNCHANGED <<web_project, w_args>>
  /\ UNCHANGED <<resolverVars, compileVars, flagVars, unitVars, commandVars, pipelineVars>>

\* web_build with is_static False: the flags of the link
WebBuildArgs ==
  /\ w_pc = "build"
  /\ w_args' = normalized_ldargs(w_ld_args)
  /\ w_pc' = "linked"
  /\ UNCHANGED <<web_project, w_ld_args>>
  /\ UNCHANGED <<resolverVars, compileVars, flagVars, unitVars, commandVars, pipelineVars>>

\* the link flags authors write
LdTokens == {<<"-s">>, <<"ASYNCIFY", "">>, <<"-s", "ASYNCIFY", "">>, <<"-s", "ASYNCIFY_STACK_SIZE", "65536">>, <<"EXPORTED_RUNTIME_METHODS", "['ccall']">>, <<"-s", "EXPORTED_RUNTIME_METHODS", "['ccall']">>, <<"-O2">>, <<"--preload-file">>}

\* a project with any of the preload folders and with or without a shell,
\* or a shared module, which has neither
WebInit ==
  /\ w_ld_args \in SeqsUpTo(LdTokens, MaxLd)
  /\ \/ /\ web_project \in [kind : {"project"}, folders : SUBSET Range(preload_entries), template : {"", "shell.html"}]
        /\ w_pc = "flags"
     \/ /\ web_project = [kind |-> "module", folders |-> {}, template |-> ""]
        /\ w_pc = "build"
  /\ w_args = <<>>

WebNext ==
  \/ ProjectWebFlags
  \/ WebBuildArgs

\* no web link is under way
WebIdle ==
  /\ web_project = [kind |-> "none", folders |-> {}, template |-> ""]
  /\ w_ld_args = <<>>
  /\ w_args = <<>>
  /\ w_pc = "idle"

\* the parts of the build that are not in use
RestIdle == UnitIdle /\ CommandIdle /\ PipelineIdle /\ WebIdle

\* no resolution is in progress
ResolverIdle ==
  /\ all_modules = <<>>
  /\ module_names = <<>>
  /\ idx = 1
  /\ ordered = <<>>
  /\ order = <<>>
  /\ visited = {}
  /\ stack = {}
  /\ frames = <<>>
  /\ arg = NoArg
  /\ traces = <<>>
  /\ pc = "idle"

\* no compile is in progress
CompileIdle ==
  /\ c_target = "none"
  /\ arm = 0
  /\ full_build = FALSE
  /\ srcs = <<>>
  /\ srcTime = <<>>
  /\ objTime = <<>>
  /\ IsDone = FALSE
  /\ c_i = 1
  /\ use_cpp = FALSE
  /\ invocations = <<>>
  /\ c_result = "running"
  /\ c_pc = "idle"

(***************************************************************************)
(* Specifications.                                                         *)
(***************************************************************************)
\* the Dependency Graph Resolver
Init == ResolverInit /\ CompileIdle /\ FlagsIdle /\ RestIdle

Next == ResolverNext

Spec == Init /\ [][Next]_vars

\* the resolver runs sequentially to its end: every enabled step is taken
LiveSpec == Init /\ [][Next]_vars /\ WF_vars(Next)

\* the compile loops of the three targets
CompileSpecInit == CompileInit /\ ResolverIdle /\ FlagsIdle /\ RestIdle

CompileSpec == CompileSpecInit /\ [][CompileNext]_vars

\* the flag composition for modules and projects; only the registry of the
\* resolver's variables is in use
FlagsSpecInit ==
  /\ FlagsInit
  /\ CompileIdle
  /\ RestIdle
  /\ module_names = <<>>
  /\ idx = 1
  /\ ordered = <<>>
  /\ order = <<>>
  /\ visited = {}
  /\ stack = {}
  /\ frames = <<>>
  /\ arg = NoArg
  /\ traces = <<>>
  /\ pc = "idle"

FlagsSpec == FlagsSpecInit /\ [][FlagsNext]_vars

\* the build of one module or project for one target
UnitSpecInit == UnitInit /\ ResolverIdle /\ FlagsIdle /\ CommandIdle /\ PipelineIdle /\ WebIdle

UnitSpec == UnitSpecInit /\ [][UnitNext]_vars

\* a build command from its request to its exit code
CommandSpecInit == CommandInit /\ ResolverIdle /\ FlagsIdle /\ PipelineIdle /\ WebIdle

CommandSpec == CommandSpecInit /\ [][CommandNext]_vars

\* the packaging of an Android app, run up to MaxRuns times
PipelineSpecInit == PipelineInit /\ ResolverIdle /\ FlagsIdle /\ UnitIdle /\ CompileIdle /\ CommandIdle /\ WebIdle

PipelineSpec == PipelineSpecInit /\ [][PipelineNext]_vars

\* the link flags of a web build from the composed list to the linker
WebSpecInit == WebInit /\ ResolverIdle /\ FlagsIdle /\ UnitIdle /\ CompileIdle /\ CommandIdle /\ PipelineIdle

WebSpec == WebSpecInit /\ [][WebNext]_vars

(***************************************************************************)
(* Properties of the Dependency Graph Resolver.                            *)
(***************************************************************************)
\* the names a registered module lists in depends
Deps(n) == IF n \in DOMAIN all_modules THEN Range(all_modules[n].depends) ELSE {}

RECURSIVE ReachSet(_)
\* the names reachable from the set S through depends entries
ReachSet(S) == LET T == S \cup UNION {Deps(n) : n \in S} IN IF T = S THEN S ELSE ReachSet(T)

\* the registered modules reachable from the start name
Reachable(start) == ReachSet({start}) \cap DOMAIN all_modules

\* some warning of the given kind was traced
Traced(kind) == \E k \in 1..Len(traces) : traces[k][1] = kind

\* C1: the list topological_modules returns holds every registered module
\* reachable from the start module exactly once and no other name, cycles
\* included.
C1_ReachableExactlyOnce == pc = "returned" => (NoDuplicates(order) /\ Range(order) = Reachable(module_names[idx]))

\* a two-module cycle was resolved and both modules are in the returned list
C1_Witness == pc = "returned" /\ \E a, b \in Range(order) : a # b /\ b \in Deps(a) /\ a \in Deps(b)

\* every module of the list comes after each of its dependencies (other than
\* itself) in the list
DepsFirst(list) == \A m \in Range(list) : \A d \in (Deps(m) \ {m}) \cap Range(list) : IndexOf(list, d) < IndexOf(list, m)

\* C2 as claimed: in the lists of topological_modules and closure_for_modules
\* every module comes after each of its dependencies present in the list,
\* for any registry, cycles included.
C2_Original == (pc = "returned" => DepsFirst(order)) /\ (pc = "done" => DepsFirst(ordered))

\* every module of the list comes after each dependency in the list from
\* which the module is not itself reachable
DepsFirstOffCycle(list) == \A m \in Range(list) : \A d \in Deps(m) \cap Range(list) : m \notin ReachSet({d}) => IndexOf(list, d) < IndexOf(list, m)

\* C2 amended: in both lists every module comes after each of its
\* dependencies present in the list, except a dependency that depends back
\* on the module (an edge on a cycle, a self-dependency included).
C2_DepsFirstOffCycle == (pc = "returned" => DepsFirstOffCycle(order)) /\ (pc = "done" => DepsFirstOffCycle(ordered))

\* a closure merged from two requested modules that holds a module and a
\* dependency of it that does not depend back on it
C2_Witness == pc = "done" /\ Len(module_names) = 2 /\ module_names[1] # module_names[2] /\ \E m, d \in Range(ordered) : d \in Deps(m) /\ m \notin ReachSet({d})

\* C3: closure_for_modules and topological_modules terminate without an
\* exception for every registry and every start name: cycles,
\* self-dependencies, missing dependencies and unregistered start modules.
C3_Terminates == <>(pc = "done")

\* a finished closure over a registry with a cycle, asked for a name that is
\* not registered
C3_Witness == pc = "done" /\ Traced("circular") /\ Traced("not found")

\* the loop of visit is at a dependency that names the module itself
SelfEdgeMet == pc = "visit" /\ arg = NoArg /\ frames # <<>> /\ Top.i <= Len(TopDepends) /\ TopDepends[Top.i] = Top.name

\* visit was called on a module that is under visit
BackEdgeMet == pc = "visit" /\ arg # NoArg /\ arg \notin visited /\ arg \in stack

\* the step printed a circular-dependency warning
EdgeReported == Len(traces') = Len(traces) + 1 /\ traces'[Len(traces')][1] = "circular"

\* C10 as claimed: every self-edge and every back-edge met is reported with a
\* warning trace and dropped, and the module is still placed in the order.
C10_Claim == [][(SelfEdgeMet \/ BackEdgeMet) => (EdgeReported /\ pc' = "visit")]_vars /\ [](pc = "returned" => \A k \in 1..Len(traces) : traces[k][1] = "circular" => traces[k][2] \in Range(order))

(***************************************************************************)
(* Properties of the Incremental Build Tracker.                            *)
(***************************************************************************)
\* the loop of a compile function is at a source file that exists
AtSource == c_pc = "loop" /\ c_i <= Len(srcs) /\ CurSrc \in DOMAIN srcTime

\* the step is a step of the compile function out of the head of its loop
LoopStep == c_pc = "loop" /\ (c_pc' # c_pc \/ c_i' # c_i)

\* the step starts the compiler on the source the loop is at
Handed == Len(invocations') = Len(invocations) + 1 /\ invocations'[Len(invocations')].src = CurSrc /\ c_pc' = "compiling"

\* the step goes on to the next source without starting the compiler
Skipped == invocations' = invocations /\ c_pc' = "loop" /\ c_i' = c_i + 1

\* the object of the source the loop is at
CurObj == ObjName(c_target, CurSrc, arm)

\* the object is missing or the source is strictly newer than the object
MustRecompile == CurObj \notin DOMAIN objTime \/ srcTime[CurSrc] > objTime[CurObj]

\* C4 as claimed: with full_build false, in each of the three compile paths
\* an existing source is recompiled if and only if its object is missing or
\* the source is strictly newer than the object, and is skipped otherwise.
C4_Claim == [][(LoopStep /\ AtSource /\ ~full_build /\ ~IsDone) => IF MustRecompile THEN Handed ELSE Skipped]_vars

\* the existing sources of the list
ExistingSrcs == Range(srcs) \cap DOMAIN srcTime

\* the sources a compiler was started on
HandedSrcs == {invocations[k].src : k \in 1..Len(invocations)}

\* C5 as claimed: with full_build true every existing source of the source
\* list is handed to the compiler, whatever the timestamps and objects are
\* (stated for the runs in which no stop is requested).
C5_Original == (c_pc = "return" /\ full_build /\ ~IsDone) => ExistingSrcs \subseteq HandedSrcs

\* the stop-requested flag ends the loop before the source (desktop, web)
StoppedAtSource == IsDone /\ c_target # "android"

\* C5 amended: with full_build true no existing source is skipped for its
\* timestamps or its object: the loop hands every existing source it reaches
\* to the compiler, and a compile function that returns True has handed
\* every existing source of the list to the compiler.
C5_FullBuildNeverSkips == [][(LoopStep /\ AtSource /\ full_build /\ ~StoppedAtSource) => Handed]_vars /\ []((c_result = "True" /\ full_build) => ExistingSrcs \subseteq HandedSrcs)

\* a full build runs the compiler on a source that is older than its object
C5_Witness == c_pc = "compiling" /\ full_build /\ LastInvocation.obj \in DOMAIN objTime /\ srcTime[LastInvocation.src] < objTime[LastInvocation.obj]

(***************************************************************************)
(* Properties of the flag composition                                      *)
(***************************************************************************)
\* the recursive function used by the flag composition computes what the
\* stepwise resolver computes
ClosureFunctionAgrees == (pc = "done") => ordered = closure_for_modules(module_names, all_modules)

\* a module's flags have been composed
ModuleComposed == f_pc = "module"

\* a project's flags have been composed
ProjectComposed == f_pc = "project"

\* C6: the C, C++ and link flag lists composed for a module
\* (collect_module_build_flags) and for a project (build_project_target's
\* lists followed by collect_project_module_flags) never contain the same
\* flag twice
C6_Claim ==
  /\ ModuleComposed => NoDuplicates(collected.cc) /\ NoDuplicates(collected.cpp) /\ NoDuplicates(collected.ld)
  /\ ProjectComposed => NoDuplicates(cc_args) /\ NoDuplicates(cpp_args) /\ NoDuplicates(ld_args)

\* the module the flags were composed for, and its platform block
Subject == all_modules[f_subject]

SubjectBlock == module_platform_block(Subject, f_target)

\* the direct dependencies whose flags are added: registered, not the
\* module itself
DirectDeps == {d \in Range(Subject.depends) : d # "" /\ d # f_subject /\ d \in DOMAIN all_modules}

\* the include-path flags of the module's src, include and
\* include/<platform> directories
OwnDirFlags == {<<"-I", f_subject, "src">>, <<"-I", f_subject, "include">>, <<"-I", f_subject, "include", include_suffix_for_target(f_target)>>}

\* the include-path flags of the directories the module declares
OwnDeclaredIncludeFlags == Range(IncludeFlags(Subject, Subject.main_include)) \cup Range(IncludeFlags(Subject, SubjectBlock.include))

\* the link flags the direct dependencies contribute
DepLinkFlags == UNION {{<<"-L">> \o library_dir_for_module(all_modules[d], f_target, f_abi), <<"-l", d>>} \cup Range(all_modules[d].main_ld_args) \cup Range(module_platform_block(all_modules[d], f_target).ld_args) : d \in DirectDeps}

\* the place of a compile flag in the claimed order: own directories,
\* common flags, platform-block flags, then what only dependencies give
ClaimedRank(flag, common, platform) == IF flag \in OwnDirFlags THEN 1 ELSE IF flag \in OwnDeclaredIncludeFlags THEN 0 ELSE IF flag \in Range(common) THEN 2 ELSE IF flag \in Range(platform) THEN 3 ELSE 4

\* the flags of the list are in the claimed order; the directories the
\* module declares are not placed by the claim
InClaimedOrder(list, common, platform) == \A i, j \in 1..Len(list) : (ClaimedRank(list[i], common, platform) # 0 /\ ClaimedRank(list[j], common, platform) # 0 /\ ClaimedRank(list[i], common, platform) < ClaimedRank(list[j], common, platform)) => i < j

\* C7 as stated: in the C, C++ and link lists composed for a module, the
\* own flags come in the order own directories, common flags,
\* platform-block flags, and every flag contributed by a direct dependency
\* comes after all of the module's own flags
C7_Original ==
  ModuleComposed =>
    /\ InClaimedOrder(collected.cc, Subject.main_cc_args, SubjectBlock.cc_args)
    /\ InClaimedOrder(collected.cpp, Subject.main_cpp_args, SubjectBlock.cpp_args)
    /\ InClaimedOrder(collected.ld, Subject.main_ld_args, SubjectBlock.ld_args)

\* the place of a compile flag in the list the code builds
CompileRank(flag, common, platform) == IF flag \in OwnDirFlags THEN 1 ELSE IF flag \in OwnDeclaredIncludeFlags THEN 2 ELSE IF flag \in Range(common) THEN 3 ELSE IF flag \in Range(platform) THEN 4 ELSE 5

\* the place of a link flag in the list the code builds
LinkRank(flag) == IF flag \in DepLinkFlags THEN 1 ELSE IF flag \in Range(Subject.main_ld_args) THEN 2 ELSE 3

CompileOrdered(list, common, platform) == \A i, j \in 1..Len(list) : CompileRank(list[i], common, platform) < CompileRank(list[j], common, platform) => i < j

LinkOrdered(list) == \A i, j \in 1..Len(list) : LinkRank(list[i]) < LinkRank(list[j]) => i < j

\* C7, amended: in the C and C++ lists composed for a module the own flags
\* come in the order own directories, declared include directories, common
\* flags, platform-block flags, and the flags only a direct dependency
\* contributes come after them; in the link list the flags of the direct
\* dependencies come first, then the module's common link flags, then its
\* platform-block link flags
C7_OrderOfComposition ==
  ModuleComposed =>
    /\ CompileOrdered(collected.cc, Subject.main_cc_args, SubjectBlock.cc_args)
    /\ CompileOrdered(collected.cpp, Subject.main_cpp_args, SubjectBlock.cpp_args)
    /\ LinkOrdered(collected.ld)
    /\ Range(collected.ld) \subseteq DepLinkFlags \cup Range(Subject.main_ld_args) \cup Range(SubjectBlock.ld_args)

\* flags were composed for a module that declares common and platform
\* flags of its own and has a direct dependency that contributes include
\* and link flags of its own
C7_Witness ==
  /\ ModuleComposed
  /\ \E d \in DirectDeps : <<"-I", d, "src">> \in Range(collected.cc) /\ <<"-l", d>> \in Range(collected.ld)
  /\ \E a \in Range(Subject.main_cc_args), b \in Range(SubjectBlock.cc_args) : a # b
  /\ \E a \in Range(Subject.main_ld_args), b \in Range(SubjectBlock.ld_args) : a # b /\ a \notin DepLinkFlags /\ b \notin DepLinkFlags
  /\ \E a \in DepLinkFlags : a \in Range(Subject.main_ld_args) \cup Range(SubjectBlock.ld_args)

\* the "-l" flags in the composed link lists
LibraryFlagNames == {n \in Names : <<"-l", n>> \in Range(ld_args) \cup Range(collected.ld)}

\* the module is registered and its library file for the target and ABI
\* exists
LibraryExists(n) == n \in DOMAIN all_modules /\ library_file_for_module(all_modules[n], f_target, f_abi) \in disk

\* C8: in module-level and project-level composition a -l<name> flag for a
\* module is in the link list only if the module is in the registry and its
\* library file for the target and ABI exists
C8_LibraryFlagOnlyIfFileExists == (ModuleComposed \/ ProjectComposed) => \A n \in LibraryFlagNames : LibraryExists(n)

\* a project's flags were composed: one module of the closure has its
\* library and got -l, another has none and got only -L
C8_Witness ==
  /\ ProjectComposed
  /\ LibraryFlagNames # {}
  /\ \E k \in DOMAIN all_modules : <<"-L">> \o library_dir_for_module(all_modules[k], f_target, f_abi) \in Range(ld_args) /\ ~LibraryExists(k) /\ k \notin LibraryFlagNames

\* the number of times a flag is in a list
Count(list, flag) == Cardinality({k \in 1..Len(list) : list[k] = flag})

\* the list has no flag of the other mode and each mode flag at most once
ModeExclusive(list, mode) ==
  /\ mode = "debug" => \A t \in Range(release_flags) : t \notin Range(list)
  /\ mode = "release" => \A t \in Range(debug_flags) : t \notin Range(list)
  /\ \A t \in Range(debug_flags) \cup Range(release_flags) : Count(list, t) <= 1

\* C9: after desktop mode filtering the compile flag lists for debug hold
\* none of the release tokens, those for release none of the debug tokens,
\* and each mode token is there at most once
C9_Claim == ((ModuleComposed \/ ProjectComposed) /\ f_target = "desktop") => ModeExclusive(cc_args, f_mode) /\ ModeExclusive(cpp_args, f_mode)

(***************************************************************************)
(* Properties of the stop request                                          *)
(***************************************************************************)
\* the step starts a compiler
StartsCompiler == Len(invocations') > Len(invocations)

\* the step returns from the compile function at a source that exists
ReturnsAtSource == AtSource /\ c_pc' = "return"

\* C16: once the stop-requested flag is set, the compile loop of each of
\* the three targets starts no further compiler and returns a result that
\* is not success
C16_Claim == [][IsDone => ~StartsCompiler]_vars /\ [][(IsDone /\ ReturnsAtSource) => c_result' # "True"]_vars

(***************************************************************************)
(* Properties of the build of a unit                                       *)
(***************************************************************************)
\* the compiler processes started on the source for the object
CompilesOf(src, obj) == {k \in 1..Len(invocations) : invocations[k].src = src /\ invocations[k].obj = obj}

\* no source is handed to the compiler twice for one target and ABI
AtMostOnce == \A k \in 1..Len(invocations) : Cardinality(CompilesOf(invocations[k].src, invocations[k].obj)) = 1

\* every existing source of the unit was compiled once for the ABI, or was
\* skipped: the build is not a full build and the object of the source is
\* there
CompiledOrSkipped == \A s \in Range(srcs) \cap DOMAIN srcTime :
  \/ Cardinality(CompilesOf(s, ObjName(c_target, s, arm))) = 1
  \/ (Cardinality(CompilesOf(s, ObjName(c_target, s, arm))) = 0 /\ ~full_build /\ ObjName(c_target, s, arm) \in DOMAIN objTime)

\* the step starts a linker or archiver
StartsLinker == Len(links') > Len(links)

\* the processes the step starts belong to the unit, target and ABI whose
\* compile has just returned
LinksTheCompiled == \A k \in (Len(links) + 1)..Len(links') : links'[k].unit = u_i /\ links'[k].target = c_target /\ links'[k].abi = arm

UnitFailed ==
  \/ u_pc = "compile" /\ c_pc = "return" /\ c_result = "False"
  \/ \E k \in 1..Len(links) : links[k].code # 0
  \/ ~ok
  \/ u_pc = "return" /\ u_result = "False"

\* C12: once a compile or a link of the unit has failed, no compiler and no
\* linker is started for the unit and target any more (the remaining ABIs
\* on Android included), and the build of the unit returns failure
C12_Claim == [][UnitFailed => ~(StartsCompiler \/ StartsLinker)]_vars /\ []((UnitFailed /\ u_pc = "return") => u_result = "False")

\* the target a compiler invocation worked for, read off the object root
TargetOfRoot(root) == IF root = "Linux" THEN "desktop" ELSE IF root = "Web" THEN "web" ELSE "android"

\* the targets some compiler, linker or archiver was invoked for
ToolTargets == {TargetOfRoot(invocations[k].obj.root) : k \in 1..Len(invocations)} \cup {links[k].target : k \in 1..Len(links)}

\* the build of a unit has returned failure to command_build
UnitReturnedFailure == cmd_pc = "build" /\ u_pc = "return" /\ u_result = "False"

\* the targets of the request after the one at the loop position
LaterTargets == {targets[k] : k \in (t_i + 1)..Len(targets)}

\* C13: once the build of a module or project has failed for one target,
\* command_build returns 1 at once: nothing happens after the return, and
\* no tool has worked for a later target of the request.
C13_FailureEndsCommand ==
  /\ [][UnitReturnedFailure => (exit_code' = 1 /\ cmd_pc' = "done")]_vars
  /\ [][cmd_pc # "done"]_vars
  /\ [](ToolTargets \cap LaterTargets = {} /\ ((cmd_pc = "done" /\ u_result = "False") => exit_code = 1))

C13_Witness == cmd_pc = "done" /\ exit_code = 1 /\ u_result = "False" /\ t_i < Len(targets) /\ links # <<>> /\ u_i = 2 /\ ToolTargets = {targets[t_i]}

UnknownToken == (\E k \in 1..Len(raw_targets) : raw_targets[k] \notin DOMAIN TARGET_ALIASES) \/ (\E k \in 1..Len(raw_abis) : raw_abis[k] \notin DOMAIN ABI_ALIASES)

\* C15: a request with an unknown target token or an unknown ABI token,
\* wherever it stands, ends with code 1 at its first step: no tool has been
\* invoked, no object written and no build started.
C15_UnknownTokenEndsAtOnce == UnknownToken => (invocations = <<>> /\ links = <<>> /\ objTime = <<>> /\ u_pc = "idle" /\ cmd_pc \in {"start", "done"} /\ (cmd_pc = "done" => exit_code = 1))

C15_Witness == cmd_pc = "done" /\ exit_code = 1 /\ Len(raw_targets) = 2 /\ raw_targets[1] \in DOMAIN TARGET_ALIASES /\ raw_targets[2] \notin DOMAIN TARGET_ALIASES /\ raw_abis = <<"arm64">>

\* C17: a manifest that exists before a packaging run and names the
\* package, the activity and the library of the call is the same after it,
\* in every run.
C17_Claim == (p_pc \notin {"idle", "start"} /\ ManifestMatches(before.manifest)) => manifest = before.manifest

\* the packaging steps whose tool failure ends the run, in order
StepNo == [key |-> 1, resources |-> 2, javac |-> 3, translate |-> 4, package |-> 5, sign |-> 6]

\* the step that produces the file
FileStep == [f \in AllFiles |-> IF f = "key" THEN 1 ELSE IF f = "R.java" THEN 2 ELSE IF f = "stale.class" THEN 3 ELSE IF f = "classes.dex" THEN 4 ELSE IF f = "unaligned.apk" THEN 5 ELSE 6]

\* the step taken is the failure of a packaging step
StepFails == p_pc \in DOMAIN StepNo /\ p_pc' = "return" /\ p_result' = "False"

\* the tools whose nonzero exit code ends the run: every tool of the six
\* steps but the modern translator, whose failure hands over to dx
FatalTools == {"keytool", "aapt", "javac", "dx", "apksigner"}

\* C18: a packaging step that fails returns failure at once: the last tool
\* run is the one that failed, no tool follows a failed one, and every file
\* an earlier step produced, the class files and the manifest are still
\* there after the return.
C18_FailedStepKeepsOutputs ==
  /\ [][StepFails => (/\ \A f \in files : FileStep[f] < StepNo[p_pc] => f \in files'
                      /\ (StepNo[p_pc] > 3 => java' = java)
                      /\ manifest' = manifest
                      /\ Len(tool_log') > Len(tool_log)
                      /\ tool_log'[Len(tool_log')].code # 0)]_vars
  /\ [](\A k \in 1..Len(tool_log) : (tool_log[k].code # 0 /\ tool_log[k].tool \in FatalTools) => (k = Len(tool_log) /\ p_pc = "return" /\ p_result = "False"))

C18_Witness == p_pc = "return" /\ p_result = "False" /\ Len(tool_log) >= 2 /\ tool_log[Len(tool_log)].tool = "apksigner" /\ before.files = {} /\ files = {"key", "R.java", "classes.dex", "unaligned.apk"} /\ runs = 1

\* the installs of the run, the retry included, and whether one succeeded
Installs == {k \in 1..Len(tool_log) : tool_log[k].tool = "adb install"}

\* C19: when the install fails and the retry after the uninstall fails too,
\* or is not attempted, android_compile_java_native returns failure.
C19_Claim == (p_pc = "return" /\ Installs # {} /\ \A k \in Installs : tool_log[k].code # 0) => p_result = "False"

\* the tools of the translation step, in the order they ran
Translators == SelectSeq(tool_log, LAMBDA e : e.step = "translate")

\* the translation step is over
Translated == p_pc \in {"package", "sign", "install", "run"} \/ (p_pc = "return" /\ tool_log # <<>> /\ tool_log[Len(tool_log)].step \notin {"key", "resources", "javac"})

\* the run failed in the translation step
FailedTranslating == p_pc = "return" /\ p_result = "False" /\ tool_log[Len(tool_log)].step = "translate"

\* C20: without a class file no translator runs and the packaging goes on;
\* with class files d8 runs first when it exists, dx runs exactly when d8
\* does not exist or exited nonzero, and the step fails exactly when dx
\* exited nonzero.
C20_TranslatorFallback ==
  Translated =>
    IF ~ClassFiles
      THEN Translators = <<>>
      ELSE /\ Translators \in {<<[tool |-> "d8", code |-> c, step |-> "translate"]>> : c \in {0}}
                          \cup {<<[tool |-> "d8", code |-> 1, step |-> "translate"], [tool |-> "dx", code |-> c, step |-> "translate"]>> : c \in ExitCodes}
                          \cup {<<[tool |-> "dx", code |-> c, step |-> "translate"]>> : c \in ExitCodes}
           /\ (Translators[1].tool = "d8") = dx8_exists
           /\ FailedTranslating = (Translators[Len(Translators)] = [tool |-> "dx", code |-> 1, step |-> "translate"])

C20_Witness == p_pc = "return" /\ p_result = "True" /\ Len(Translators) = 2 /\ Translators[1].code = 1 /\ Translators[2].code = 0 /\ "unaligned.apk" \in files /\ before.files = {}

\* C29: the flag list of a compile depends on the extension of its own
\* source only: a C source is compiled with the C flags and a C++ source
\* with the C++ flags, whatever was compiled before it.
C29_Claim == \A k \in 1..Len(invocations) : invocations[k].args = (IF invocations[k].src.ext = ".c" THEN "cargs" ELSE "cppargs")

\* the module a unit of the build stands for
ModuleOfUnit(unit) == [name |-> "m", static |-> unit.static]

\* C27: the file the link step of a module writes is the file
\* library_file_for_module computes for the module, the target and the ABI.
C27_Claim == \A k \in 1..Len(links) : units[links[k].unit].kind = "module" => module_build_export(ModuleOfUnit(units[links[k].unit]), links[k].target, links[k].abi) = library_file_for_module(ModuleOfUnit(units[links[k].unit]), links[k].target, links[k].abi)

\* C26: within one compile two distinct source files have two distinct
\* object files: no compiler process writes the object of another source.
C26_Claim == \A j, k \in 1..Len(invocations) : invocations[j].src # invocations[k].src => invocations[j].obj # invocations[k].obj

\* the objects of the sources of the unit that was linked
ObjectsOfSources(e, S) == {ObjName(e.target, s, e.abi) : s \in S}

\* C28: the objects handed to the linker or archiver are objects of the
\* current source list, every existing source among them: an object left by
\* an earlier build for a source no longer listed is not linked.
C28_Claim == \A k \in 1..Len(links) : links[k].objs \subseteq ObjectsOfSources(links[k], Range(units[links[k].unit].srcs)) /\ ObjectsOfSources(links[k], Range(units[links[k].unit].srcs) \cap DOMAIN srcTime) \subseteq links[k].objs

\* the list holds the pair --preload-file, <folder>@/<folder>
PreloadPair(list, folder) == \E k \in 1..(Len(list) - 1) : list[k] = <<"--preload-file">> /\ list[k + 1] = <<folder, "@/", folder>>

\* C23: the link flags handed to web_build for a project hold, for every
\* preload folder that exists, --preload-file immediately followed by
\* <folder>@/<mount name>.
C23_Claim == (web_project.kind = "project" /\ w_pc \in {"build", "linked"}) => \A folder \in web_project.folders : PreloadPair(w_ld_args, folder)

\* some flag of the list is the setting of the name in its one-token form
SetsSetting(list, name) == \E k \in 1..Len(list) : Len(list[k]) = 3 /\ list[k][1] = "-s" /\ list[k][2] = name

\* what web_build appended to the normalized incoming flags
AppendedDefaults == SubSeq(w_args, Len(normalize_ldargs(w_ld_args, <<>>)) + 1, Len(w_args))

\* C24: the flags of a non-static web link set ASYNCIFY and
\* EXPORTED_RUNTIME_METHODS; each default is appended, once, exactly when
\* the incoming flags do not set that setting in one-token or two-token form.
C24_Claim ==
  w_pc = "linked" =>
    /\ SetsSetting(w_args, "ASYNCIFY")
    /\ SetsSetting(w_args, "EXPORTED_RUNTIME_METHODS")
    /\ Count(AppendedDefaults, DefaultAsyncify) = (IF SetsSetting(normalize_ldargs(w_ld_args, <<>>), "ASYNCIFY") THEN 0 ELSE 1)
    /\ Count(AppendedDefaults, DefaultExported) = (IF SetsSetting(normalize_ldargs(w_ld_args, <<>>), "EXPORTED_RUNTIME_METHODS") THEN 0 ELSE 1)

\* the step returns from the build of an Android project after the linker
\* succeeded for some ABI
ReturnsWithSomeAbiBuilt == u_pc # "return" /\ u_pc' = "return" /\ Unit.kind = "project" /\ c_target = "android" /\ \E k \in 1..Len(links') : links'[k].tool = "llvm-strip" /\ links'[k].code = 0

\* C25: the build of an Android project goes on to packaging and install
\* even when only some of the requested ABIs were compiled and linked: it
\* returns from the packaging, never straight from the loop over the ABIs.
C25_Claim == [][ReturnsWithSomeAbiBuilt => u_pc = "package"]_vars

\* the class files of the out folder
ClassCount == Cardinality({k \in 1..Len(java) : java[k] # "none"}) + (IF "stale.class" \in files THEN 1 ELSE 0)

\* the class files javac has produced in the run
CompiledNow == Cardinality({k \in 1..Len(tool_log) : tool_log[k].tool = "javac" /\ tool_log[k].code = 0})

\* a translator of the run exited 0
TranslatedNow == \E k \in 1..Len(tool_log) : tool_log[k].tool \in {"d8", "dx"} /\ tool_log[k].code = 0

\* the dex files of the archive were produced by the run
DexOfThisRun == (p_pc \in {"sign", "install", "run"} /\ <<"classes.dex">> \in apk) => TranslatedNow

\* C21: what an earlier run left in the bundle folder is gone before the
\* translation and the assembly of the archive: every class file handed to
\* the translator was compiled by javac in the current run, and every dex
\* file of the archive was written by a translator of the current run.
C21_Claim == (Translators # <<>> => ClassCount = CompiledNow) /\ DexOfThisRun

\* the step taken is a packaging step whose aapt exited 0
Packaged == p_pc = "package" /\ tool_log'[Len(tool_log')].code = 0

\* C22: when the archive is assembled, lib/<abi>/lib<name>.so is added for
\* an ABI exactly when the library of that ABI exists under Android/<abi>/;
\* a library that is absent is only traced, and the run goes on to signing
\* with its result still open.
C22_LibsAddedWhenPresent == [][Packaged => (/\ \A abi \in {0, 1} : (LibEntry(abi) \in apk' <=> LibExists(abi)) /\ (<<"missing", AbiName(abi)>> \in Range(p_trace') <=> ~LibExists(abi))
                                           /\ p_pc' = "sign"
                                           /\ p_result' = p_result)]_vars

C22_Witness == p_pc = "return" /\ p_result = "True" /\ runs = 1 /\ <<"missing", "arm64-v8a">> \in Range(p_trace) /\ LibEntry(0) \in apk /\ LibEntry(1) \notin apk /\ "signed.apk" \in files /\ before.files = {}

\* apksigner has signed the archive in the run
SignedNow == \E k \in 1..Len(tool_log) : tool_log[k].tool = "apksigner" /\ tool_log[k].code = 0

====
